---------------------------- MODULE Spec2Model ----------------------------
(***************************************************************************)
(* Model of the NJDB infrastructure query engine of mcp-trafikverket:      *)
(* the geometry reducer (src/lib/geometry-utils.ts), the spatial filter    *)
(* and the segment / region query engine with its result cache             *)
(* (clients/lastkajen-client.ts), and the infrastructure tool handler.     *)
(*                                                                         *)
(* Numbers.  A coordinate is an integer; JavaScript numbers are modelled   *)
(* by exact integer arithmetic.  Distances are irrational in general, so a *)
(* distance is kept as the exact pair the code divides (see                *)
(* perpendicularDistance) and compared without rounding.                   *)
(***************************************************************************)
EXTENDS Integers, Sequences, FiniteSets, TLC

VARIABLES
    coords,        \* simplifyPath: the input polyline, a sequence of <<lon, lat>>
    tolerance,     \* simplifyPath: the tolerance argument
    simplified,    \* simplifyPath(coords, tolerance), or NotRun
    kept,          \* the indices of coords that simplified holds, in order
    resimplified,  \* simplifyPath(simplified, tolerance), or NotRun
    spc,           \* position of the simplification driver
    geom,          \* geometryIntersectsBBox: the geometry argument
    box,           \* geometryIntersectsBBox: the bbox argument
    hit,           \* geometryIntersectsBBox(geom, box), or NotRun
    center,        \* bboxFromPoint: the arguments [lat, lon, radiusKm]
    made,          \* bboxFromPoint(center), or NotRun
    bpc,           \* position of the spatial filter driver
    stationGeom,   \* isStationNearTrack: the station's point geometry
    trackGeom,     \* isStationNearTrack: the track's LineString geometry
    thresholdDeg,  \* the thresholdDegrees argument of both proximity tests
    nearTrack,     \* isStationNearTrack(stationGeom, trackGeom, thresholdDeg),
                   \* or NotRun
    preSimplified, \* simplifyTrackForStationFilter(trackGeom), or NotRun
    nearPre,       \* isPointNearSimplifiedTrack(stationGeom, preSimplified,
                   \* thresholdDeg), or NotRun
    stpc,          \* position of the station proximity driver
    dataFiles,     \* data-loader.ts: the number of records of each category that
                   \* the data files hold and the load functions return
    resultCache,   \* lastkajen-client.ts: key -> [data, timestamp]
    now,           \* Date.now()
    call,          \* the last call and its arguments
    response,      \* what the last call returned or threw
    scanned,       \* whether the last call filtered the loaded collections
    reduced,       \* the number of records the last call transformed
    lastScan,      \* the query and the time of the latest call that filtered
                   \* the loaded collections, and the data files it loaded
    answered,      \* the responses to the query of lastScan since then, by
                   \* detail level
    repeat,        \* whether the last call repeated the query of lastScan
                   \* within CACHE_TTL of it
    held,          \* the age of the cache entry under the key of the last
                   \* call when it began, <<>> when there was none
    filesAt,       \* the data files the data loader returned the records of
                   \* when the last call was made
    work,          \* the simplifications and proximity tests the last call
                   \* made to build a raw result
    builtFrom,     \* for each key of resultCache, the call that stored the
                   \* entry and the data files whose records it filtered
    loadedAt,      \* data-loader.ts: cache.loadedAt, <<>> when undefined
    dataCache,     \* data-loader.ts: what cache holds of the data files,
                   \* <<>> when nothing is loaded
    tasks,         \* the calls in flight: for each caller its position, its
                   \* arguments, the file reads it awaits and its response
    readLog,       \* the times at which the data files were read, with the
                   \* number of reads of each file at that time
    dataDir,       \* the files the sync script writes: the number of stations
                   \* in stations.json and the content of sync-status.json
    refreshed,     \* the times of the sync runs that fetched and wrote data
    cachedToken,   \* lastkajen-api: cachedToken, <<>> when null, else
                   \* <<[token, expiresAt]>>
    env,           \* process.env: LASTKAJEN_USERNAME, LASTKAJEN_PASSWORD and
                   \* LASTKAJEN_API_TOKEN, "" when unset or empty
    getting,       \* the calls of getValidToken: for each caller whether it
                   \* awaits refreshToken, and what its last call returned
    logins,        \* the number of login requests issued
    tokenStep      \* the last step of a call of getValidToken: its kind, the
                   \* caller, the time and cachedToken before it

simplifyVars == <<coords, tolerance, simplified, kept, resimplified, spc>>
stationVars == <<stationGeom, trackGeom, thresholdDeg, nearTrack, preSimplified, nearPre, stpc>>
filterVars == <<geom, box, hit, center, made, bpc, stationVars>>
traceVars == <<lastScan, answered, repeat, held, filesAt, work, builtFrom>>
loaderVars == <<loadedAt, dataCache, tasks, readLog>>
tokenVars == <<cachedToken, env, getting, logins, tokenStep>>
syncVars == <<dataDir, refreshed, tokenVars>>
\* the engine's variables other than those of the sync script and the token
engineVarsButSync ==
    <<dataFiles, resultCache, now, call, response, scanned, reduced,
      traceVars, loaderVars>>

engineVars ==
    <<dataFiles, resultCache, now, call, response, scanned, reduced,
      traceVars, loaderVars, syncVars>>
vars == <<simplifyVars, filterVars, engineVars>>

NotRun == "not-run"

----------------------------------------------------------------------------
(* Exact comparison of products of two JavaScript numbers.  The products  *)
(* of the distance formulas exceed TLC's 32-bit integers, so a product is *)
(* kept as its digits in base 10000, most significant first.              *)

Abs(n) == IF n < 0 THEN -n ELSE n

\* const x = value; then Body(x): the value is computed once
Const(value, Body(_)) == CHOOSE result \in {Body(x) : x \in {value}} : TRUE

Limbs(n) == <<n % 10000, (n \div 10000) % 10000, n \div 100000000>>

Product(a, b) ==
    LET x == Limbs(a)
        y == Limbs(b)
        c0 == x[1] * y[1]
        c1 == x[1] * y[2] + x[2] * y[1]
        c2 == x[1] * y[3] + x[2] * y[2] + x[3] * y[1]
        c3 == x[2] * y[3] + x[3] * y[2]
        c4 == x[3] * y[3]
        k1 == c1 + (c0 \div 10000)
        k2 == c2 + (k1 \div 10000)
        k3 == c3 + (k2 \div 10000)
        k4 == c4 + (k3 \div 10000)
    IN  <<k4, k3 % 10000, k2 % 10000, k1 % 10000, c0 % 10000>>

ProductGreater(p, q) ==
    \E i \in 1..5 : p[i] > q[i] /\ \A j \in 1..(i - 1) : p[j] = q[j]

----------------------------------------------------------------------------
(* geometry-utils.ts: Douglas-Peucker simplification                      *)

\* perpendicularDistance(point, lineStart, lineEnd).  The value returned
\* by the code is sqrt(sq) when the line is a point and num / sqrt(len)
\* otherwise; the model returns the exact operands: the distance d
\* satisfies d * d = (a * b) / l.
perpendicularDistance(point, lineStart, lineEnd) ==
    LET x  == point[1]
        y  == point[2]
        x1 == lineStart[1]
        y1 == lineStart[2]
        x2 == lineEnd[1]
        y2 == lineEnd[2]
        lineLengthSq == (x2 - x1) * (x2 - x1) + (y2 - y1) * (y2 - y1)
        \* (y2 - y1) * x - (x2 - x1) * y + x2 * y1 - y2 * x1, with the
        \* terms regrouped around lineStart (the same number)
        numerator == Abs((y2 - y1) * (x - x1) - (x2 - x1) * (y - y1))
    IN  IF lineLengthSq = 0
        THEN [a |-> (x - x1) * (x - x1) + (y - y1) * (y - y1), b |-> 1, l |-> 1]
        ELSE [a |-> numerator, b |-> numerator, l |-> lineLengthSq]

ZeroDistance == [a |-> 0, b |-> 0, l |-> 1]

\* dist > maxDist, for two distances to the same line (or maxDist = 0)
DistGreater(dist, maxDist) ==
    ProductGreater(Product(dist.a, dist.b), Product(maxDist.a, maxDist.b))

\* maxDist > tolerance
ExceedsTolerance(maxDist, tol) ==
    ProductGreater(Product(maxDist.a, maxDist.b), Product(tol * tol, maxDist.l))

\* MaxScan with the loop stopping one point early (i < coords.length - 2)
RECURSIVE MaxScanStopsEarly(_, _)
MaxScanStopsEarly(cs, i) ==
    IF i < 2 \/ i = Len(cs) - 1
    THEN (IF i < 3 THEN [maxDist |-> ZeroDistance, maxIndex |-> 0]
                   ELSE MaxScanStopsEarly(cs, i - 1))
    ELSE LET prev == MaxScanStopsEarly(cs, i - 1)
             dist == perpendicularDistance(cs[i], cs[1], cs[Len(cs)])
         IN  IF DistGreater(dist, prev.maxDist)
             THEN [maxDist |-> dist, maxIndex |-> i - 1]
             ELSE prev

\* MaxScan that records the position after the farthest point
\* (maxIndex = i + 1)
RECURSIVE MaxScanOneAhead(_, _)
MaxScanOneAhead(cs, i) ==
    IF i < 2
    THEN [maxDist |-> ZeroDistance, maxIndex |-> 0]
    ELSE LET prev == MaxScanOneAhead(cs, i - 1)
             dist == perpendicularDistance(cs[i], cs[1], cs[Len(cs)])
         IN  IF DistGreater(dist, prev.maxDist)
             THEN [maxDist |-> dist, maxIndex |-> i]
             ELSE prev

\* The loop of simplifyPath (lines 24-35): the state after visiting
\* indices 2 .. i of the 1-based sequence cs (the code's 1 .. i - 1).
RECURSIVE MaxScan(_, _)
MaxScan(cs, i) ==
    IF i < 2
    THEN [maxDist |-> ZeroDistance, maxIndex |-> 0]
    ELSE LET prev == MaxScan(cs, i - 1)
             dist == perpendicularDistance(cs[i], cs[1], cs[Len(cs)])
         IN  IF DistGreater(dist, prev.maxDist)
             THEN [maxDist |-> dist, maxIndex |-> i - 1]
             ELSE prev

\* coords.slice(from, to) on a 1-based sequence: code indices from .. to - 1
Slice(cs, from, to) == SubSeq(cs, from + 1, to)

\* simplifyPath that joins the halves without dropping the junction point
RECURSIVE simplifyPathKeepsJunction(_, _)
simplifyPathKeepsJunction(cs, tol) ==
    IF Len(cs) <= 2
    THEN cs
    ELSE LET scan == MaxScan(cs, Len(cs) - 1)
         IN  IF ExceedsTolerance(scan.maxDist, tol)
             THEN simplifyPathKeepsJunction(Slice(cs, 0, scan.maxIndex + 1), tol)
                  \o simplifyPathKeepsJunction(Slice(cs, scan.maxIndex, Len(cs)), tol)
             ELSE <<cs[1], cs[Len(cs)]>>

\* simplifyPath whose left half stops before the split point
\* (coords.slice(0, maxIndex))
RECURSIVE simplifyPathShortLeft(_, _)
simplifyPathShortLeft(cs, tol) ==
    IF Len(cs) <= 2
    THEN cs
    ELSE LET scan == MaxScan(cs, Len(cs) - 1)
         IN  IF ExceedsTolerance(scan.maxDist, tol)
             THEN LET left == simplifyPathShortLeft(Slice(cs, 0, scan.maxIndex), tol)
                      right == simplifyPathShortLeft(Slice(cs, scan.maxIndex, Len(cs)), tol)
                  IN  Slice(left, 0, Len(left) - 1) \o right
             ELSE <<cs[1], cs[Len(cs)]>>

RECURSIVE simplifyPath(_, _)
simplifyPath(cs, tol) ==
    IF Len(cs) <= 2
    THEN cs
    ELSE LET scan == MaxScan(cs, Len(cs) - 1)
             first == cs[1]
             last == cs[Len(cs)]
         IN  IF ExceedsTolerance(scan.maxDist, tol)
             THEN LET left == simplifyPath(Slice(cs, 0, scan.maxIndex + 1), tol)
                      right == simplifyPath(Slice(cs, scan.maxIndex, Len(cs)), tol)
                  IN  Slice(left, 0, Len(left) - 1) \o right
             ELSE <<first, last>>

----------------------------------------------------------------------------
(* geometry-utils.ts: detail levels                                       *)

\* A value that is not there (undefined, or a property a record lacks) and
\* the failure of reading a property of it (a TypeError).
Undefined == [undefined |-> TRUE]
IsUndefined(x) == "undefined" \in DOMAIN x
Threw == [threw |-> "TypeError"]
IsThrow(x) == "threw" \in DOMAIN x

\* 0.005, 0.01 and 0.005 degrees in coordinate units
DEFAULT_TOLERANCE == 10000
STATION_FILTER_SIMPLIFICATION_TOLERANCE == 20000
DEFAULT_STATION_THRESHOLD == 10000

\* Math.round(v * 1e6) / 1e6 on a coordinate of v units of 0.5e-6 degrees:
\* Math.round(v / 2) is floor(v / 2 + 1 / 2)
RoundMicro(v) == 2 * ((v + 1) \div 2)

truncatePrecision(cs) ==
    [i \in 1..Len(cs) |-> <<RoundMicro(cs[i][1]), RoundMicro(cs[i][2])>>]

formatLineGeometry(geometry, detail) ==
    CASE detail = "metadata" -> Undefined
      [] detail = "corridor" ->
            IF IsUndefined(geometry)
            THEN Threw
            ELSE [type |-> "LineString",
                  coordinates |->
                      truncatePrecision(simplifyPath(geometry.coordinates, DEFAULT_TOLERANCE))]
      [] detail = "precise" -> geometry

formatLineStructureGeometry(geometry, detail) ==
    IF detail = "metadata"
    THEN Undefined
    ELSE IF IsUndefined(geometry)
         THEN Threw
         ELSE LET cs == geometry.coordinates
              IN  IF Len(cs) <= 2
                  THEN geometry
                  ELSE [type |-> "LineString", coordinates |-> <<cs[1], cs[Len(cs)]>>]

formatStructureGeometry(geometry, detail) ==
    IF detail = "metadata"
    THEN Undefined
    ELSE IF IsUndefined(geometry)
         THEN Threw
         ELSE IF geometry.type = "Point"
              THEN geometry
              ELSE LET cs == geometry.coordinates
                   IN  IF Len(cs) <= 2
                       THEN geometry
                       ELSE [type |-> "LineString", coordinates |-> <<cs[1], cs[Len(cs)]>>]

formatPointGeometry(geometry, detail) ==
    IF detail = "metadata" THEN Undefined ELSE geometry

----------------------------------------------------------------------------
(* geometry-utils.ts: distance of a point to a track                      *)

\* pointToSegmentDistance, as the exact operands of the distance (see
\* perpendicularDistance): the projection parameter t is clamped to 0 when
\* the dot product is not positive and to 1 when it reaches lenSq.
pointToSegmentDistance(point, segStart, segEnd) ==
    LET px == point[1]
        py == point[2]
        x1 == segStart[1]
        y1 == segStart[2]
        x2 == segEnd[1]
        y2 == segEnd[2]
        dx == x2 - x1
        dy == y2 - y1
        lenSq == dx * dx + dy * dy
        dot == (px - x1) * dx + (py - y1) * dy
        cross == Abs(dy * (px - x1) - dx * (py - y1))
    IN  IF lenSq = 0 \/ dot <= 0
        THEN [a |-> (px - x1) * (px - x1) + (py - y1) * (py - y1), b |-> 1, l |-> 1]
        ELSE IF dot >= lenSq
             THEN [a |-> (px - x2) * (px - x2) + (py - y2) * (py - y2), b |-> 1, l |-> 1]
             ELSE [a |-> cross, b |-> cross, l |-> lenSq]

\* pointToLineStringDistance: the code returns the least of these
\* distances (Infinity when there is none); the model returns them all.
pointToLineStringDistance(point, lineCoords) ==
    IF Len(lineCoords) = 1
    THEN {pointToSegmentDistance(point, lineCoords[1], lineCoords[1])}
    ELSE {pointToSegmentDistance(point, lineCoords[i], lineCoords[i + 1]) :
              i \in 1..(Len(lineCoords) - 1)}

simplifyTrackForStationFilter(trackGeometry) ==
    simplifyPath(trackGeometry.coordinates, STATION_FILTER_SIMPLIFICATION_TOLERANCE)

\* isStationNearTrack testing the polyline as it is, without simplifyPath
isStationNearTrackUnsimplified(stationGeometry, trackGeometry, thresholdDegrees) ==
    \E d \in pointToLineStringDistance(stationGeometry.coordinates,
                                       trackGeometry.coordinates) :
        ~ExceedsTolerance(d, thresholdDegrees)

\* distance <= thresholdDegrees, for the least of the distances to the
\* polyline simplified here
isStationNearTrack(stationGeometry, trackGeometry, thresholdDegrees) ==
    Const(simplifyPath(trackGeometry.coordinates, STATION_FILTER_SIMPLIFICATION_TOLERANCE),
          LAMBDA simplifiedCoords :
              \E d \in pointToLineStringDistance(stationGeometry.coordinates,
                                                 simplifiedCoords) :
                  ~ExceedsTolerance(d, thresholdDegrees))

\* distance <= thresholdDegrees, for the least of the distances; a caller
\* that omits thresholdDegrees passes DEFAULT_STATION_THRESHOLD
isPointNearSimplifiedTrack(stationGeometry, simplifiedTrackCoords, thresholdDegrees) ==
    \E d \in pointToLineStringDistance(stationGeometry.coordinates, simplifiedTrackCoords) :
        ~ExceedsTolerance(d, thresholdDegrees)

----------------------------------------------------------------------------
(* lastkajen-client.ts: bounding boxes                                    *)

\* One degree in coordinate units: a unit is half of the 1e-6 degree step
\* that truncatePrecision rounds to.
UnitsPerDegree == 2000000

\* Math.cos((lat * Math.PI) / 180) in thousandths, for the whole degrees
\* of latitude that latitudeSchema admits (55 .. 69).
CosThousandths(latDegrees) ==
    CASE latDegrees = 55 -> 574 [] latDegrees = 56 -> 559 [] latDegrees = 57 -> 545
      [] latDegrees = 58 -> 530 [] latDegrees = 59 -> 515 [] latDegrees = 60 -> 500
      [] latDegrees = 61 -> 485 [] latDegrees = 62 -> 469 [] latDegrees = 63 -> 454
      [] latDegrees = 64 -> 438 [] latDegrees = 65 -> 423 [] latDegrees = 66 -> 407
      [] latDegrees = 67 -> 391 [] latDegrees = 68 -> 375 [] latDegrees = 69 -> 358

\* bboxFromPoint with the southern edge computed as lat + latDelta
bboxFromPointSignSlip(lat, lon, radiusKm) ==
    LET latDelta == (radiusKm * UnitsPerDegree) \div 111
        lonDelta == (latDelta * 1000) \div CosThousandths(lat \div UnitsPerDegree)
    IN  [minLon |-> lon - lonDelta, minLat |-> lat + latDelta,
         maxLon |-> lon + lonDelta, maxLat |-> lat + latDelta]

\* bboxFromPoint(lat, lon, radiusKm): lat and lon in coordinate units.
\* latDelta = radiusKm / 111 degrees; lonDelta = radiusKm / (111 * cos(lat))
\* degrees, rounded down to a unit.
bboxFromPoint(lat, lon, radiusKm) ==
    LET latDelta == (radiusKm * UnitsPerDegree) \div 111
        lonDelta == (latDelta * 1000) \div CosThousandths(lat \div UnitsPerDegree)
    IN  [minLon |-> lon - lonDelta, minLat |-> lat - latDelta,
         maxLon |-> lon + lonDelta, maxLat |-> lat + latDelta]

\* isPointInBBox with the eastern edge excluded (lon < bbox.maxLon)
isPointInBBoxOpenEast(lon, lat, bbox) ==
    lon >= bbox.minLon /\ lon < bbox.maxLon /\ lat >= bbox.minLat /\ lat <= bbox.maxLat

isPointInBBox(lon, lat, bbox) ==
    lon >= bbox.minLon /\ lon <= bbox.maxLon /\ lat >= bbox.minLat /\ lat <= bbox.maxLat

\* coords.some(([lon, lat]) => isPointInBBox(lon, lat, bbox))
SomeInBBox(cs, bbox) == \E i \in 1..Len(cs) : isPointInBBox(cs[i][1], cs[i][2], bbox)

\* geometryIntersectsBBox that asks every vertex to be inside the box
geometryIntersectsBBoxEvery(geometry, bbox) ==
    CASE geometry.type = "Point" ->
            isPointInBBox(geometry.coordinates[1], geometry.coordinates[2], bbox)
      [] geometry.type = "LineString" ->
            \A i \in 1..Len(geometry.coordinates) :
                isPointInBBox(geometry.coordinates[i][1], geometry.coordinates[i][2], bbox)
      [] geometry.type = "Polygon" -> SomeInBBox(geometry.coordinates[1], bbox)
      [] OTHER -> FALSE

geometryIntersectsBBox(geometry, bbox) ==
    CASE geometry.type = "Point" ->
            isPointInBBox(geometry.coordinates[1], geometry.coordinates[2], bbox)
      [] geometry.type = "LineString" -> SomeInBBox(geometry.coordinates, bbox)
      [] geometry.type = "Polygon" -> SomeInBBox(geometry.coordinates[1], bbox)
      [] OTHER -> FALSE

----------------------------------------------------------------------------
(* lastkajen-client.ts: geometry transformation of records                *)

\* item.geometry is there (neither undefined nor null)
HasGeometry(r) == "geometry" \in DOMAIN r

GeometryOf(r) == IF HasGeometry(r) THEN r.geometry ELSE Undefined

\* const { geometry: _, ...rest } = r
WithoutGeometry(r) == [k \in DOMAIN r \ {"geometry"} |-> r[k]]

\* { ...r, geometry: g }
WithGeometry(r, g) ==
    [k \in DOMAIN r \cup {"geometry"} |-> IF k = "geometry" THEN g ELSE r[k]]

\* The body shared by the eight transform functions, transformedGeometry
\* being the value of the format function they call.
Transformed(r, transformedGeometry) ==
    IF IsThrow(transformedGeometry)
    THEN Threw
    ELSE IF IsUndefined(transformedGeometry)
         THEN WithoutGeometry(r)
         ELSE WithGeometry(r, transformedGeometry)

\* transformTrackGeometry that keeps the geometry at the metadata level
transformTrackGeometryKeepsGeometry(track, detail) ==
    IF detail = "metadata"
    THEN track
    ELSE Transformed(track, formatLineGeometry(GeometryOf(track), detail))

transformTrackGeometry(track, detail) ==
    Transformed(track, formatLineGeometry(GeometryOf(track), detail))

transformTunnelGeometry(tunnel, detail) ==
    Transformed(tunnel, formatLineStructureGeometry(GeometryOf(tunnel), detail))

transformBridgeGeometry(bridge, detail) ==
    Transformed(bridge, formatStructureGeometry(GeometryOf(bridge), detail))

transformSwitchGeometry(sw, detail) ==
    Transformed(sw, formatPointGeometry(GeometryOf(sw), detail))

transformElectrificationGeometry(section, detail) ==
    Transformed(section, formatLineGeometry(GeometryOf(section), detail))

transformStationGeometry(station, detail) ==
    Transformed(station, formatPointGeometry(GeometryOf(station), detail))

transformYardGeometry(yard, detail) ==
    Transformed(yard, formatPointGeometry(GeometryOf(yard), detail))

transformAccessRestrictionGeometry(restriction, detail) ==
    Transformed(restriction, formatPointGeometry(GeometryOf(restriction), detail))

Categories ==
    {"tracks", "tunnels", "bridges", "switches", "electrification", "stations",
     "yards", "accessRestrictions"}

\* the transform function each query is created with (lines 361-371) or
\* applies (lines 317-324)
TransformOf(category, r, detail) ==
    CASE category = "tracks" -> transformTrackGeometry(r, detail)
      [] category = "tunnels" -> transformTunnelGeometry(r, detail)
      [] category = "bridges" -> transformBridgeGeometry(r, detail)
      [] category = "switches" -> transformSwitchGeometry(r, detail)
      [] category = "electrification" -> transformElectrificationGeometry(r, detail)
      [] category = "stations" -> transformStationGeometry(r, detail)
      [] category = "yards" -> transformYardGeometry(r, detail)
      [] category = "accessRestrictions" -> transformAccessRestrictionGeometry(r, detail)

\* items.map((item) => transformFn(item, detail)): the mapped list, or the
\* exception of the first call that throws
MapTransform(category, items, detail) ==
    Const([i \in 1..Len(items) |-> TransformOf(category, items[i], detail)],
          LAMBDA mapped :
        IF \E i \in 1..Len(mapped) : IsThrow(mapped[i])
        THEN Threw
        ELSE [items |-> mapped])

----------------------------------------------------------------------------
(* lastkajen-client.ts: the result cache                                  *)

\* 24 * 60 * 60 * 1000 milliseconds
CACHE_TTL == 86400000

\* data-loader.ts: CACHE_TTL, 5 minutes in milliseconds
DATA_CACHE_TTL == 300000

\* data-loader.ts: isCacheValid(), with cache.loadedAt and Date.now()
isCacheValid(at, clock) == at # <<>> /\ clock - at[1] < DATA_CACHE_TTL

\* `${cachePrefix}:bbox:${bbox.minLon},${bbox.minLat},${bbox.maxLon},${bbox.maxLat}`
\* and `segment:${trackId}`, as the tuples of their parts
BBoxKey(cachePrefix, bbox) ==
    <<cachePrefix, "bbox", bbox.minLon, bbox.minLat, bbox.maxLon, bbox.maxLat>>

SegmentKey(trackId) == <<"segment", trackId>>

\* getCached that finds no entry
getCachedNeverFinds(entries, clock, key) == [found |-> FALSE, entries |-> entries]

\* getCached that never takes an entry for expired
getCachedNeverExpires(entries, clock, key) ==
    IF key \in DOMAIN entries
    THEN [found |-> TRUE, data |-> entries[key].data, entries |-> entries]
    ELSE [found |-> FALSE, entries |-> entries]

\* getCached(key) at time clock: whether there is a live entry, its data,
\* and the cache afterwards (an expired entry is deleted)
getCached(entries, clock, key) ==
    IF key \notin DOMAIN entries
    THEN [found |-> FALSE, entries |-> entries]
    ELSE IF clock - entries[key].timestamp > CACHE_TTL
         THEN [found |-> FALSE,
               entries |-> [k \in DOMAIN entries \ {key} |-> entries[k]]]
         ELSE [found |-> TRUE, data |-> entries[key].data, entries |-> entries]

setCache(entries, clock, key, data) ==
    [k \in DOMAIN entries \cup {key} |->
        IF k = key THEN [data |-> data, timestamp |-> clock] ELSE entries[k]]

\* new Map()
EmptyCache == [k \in {} |-> 0]

----------------------------------------------------------------------------
(* lastkajen-client.ts: queries                                           *)

\* limit || 100: an absent limit (written 0, which is as falsy) is 100
DefaultSliceLimit == 100

Min(a, b) == IF a <= b THEN a ELSE b

\* items.slice(0, n) for n >= 0
SliceFirst(items, n) == SubSeq(items, 1, Min(n, Len(items)))

\* allItems.filter((item) => item.geometry && geometryIntersectsBBox(item.geometry, bbox))
InBBox(allItems, bbox) ==
    LET keep(item) == HasGeometry(item) /\ geometryIntersectsBBox(item.geometry, bbox)
    IN  SelectSeq(allItems, keep)

\* The function createBBoxQuery(loadFn, transformFn, cachePrefix) returns,
\* called with (bbox, limit, geometryDetail) when the cache holds entries,
\* the clock reads clock and loadFn gives allItems.  cachePrefix "" is no
\* prefix; category names transformFn.  The value is what the call
\* returns (the list as [items |-> list], or the exception), with the
\* cache it leaves, whether it read and filtered the collection, and the
\* number of calls of transformFn.
createBBoxQuery(category, cachePrefix, entries, clock, allItems, bbox, limit, geometryDetail) ==
    LET cacheKey == BBoxKey(cachePrefix, bbox)
    IN  Const(IF cachePrefix = "" THEN [found |-> FALSE, entries |-> entries]
              ELSE getCached(entries, clock, cacheKey),
              LAMBDA cached :
        Const(IF cached.found THEN cached.data ELSE InBBox(allItems, bbox),
              LAMBDA filtered :
        Const(SliceFirst(filtered, IF limit = 0 THEN DefaultSliceLimit ELSE limit),
              LAMBDA limited :
            [value |-> MapTransform(category, limited, geometryDetail),
             entries |-> IF cachePrefix = "" \/ cached.found
                         THEN cached.entries
                         ELSE setCache(cached.entries, clock, cacheKey, filtered),
             scanned |-> ~cached.found,
             reduced |-> Len(limited)])))

\* every query created with its category as cache prefix
CachePrefixOfEvery(category) == category

\* getTracksByBBox is the one query created with a cache prefix
CachePrefixOf(category) == IF category = "tracks" THEN "tracks" ELSE ""

\* getTracksByBBox .. getAccessRestrictionsByBBox, by category; loaded is
\* what the data loader returns
getByBBox(category, entries, clock, loaded, bbox, limit, geometryDetail) ==
    createBBoxQuery(category, CachePrefixOf(category), entries, clock,
                    loaded[category], bbox, limit, geometryDetail)

\* allTracks.find((t) => t.id === trackId || t.designation === trackId)
FindTrack(allTracks, trackId) ==
    LET matches(t) == t.id = trackId \/ ("designation" \in DOMAIN t /\ t.designation = trackId)
        found == SelectSeq(allTracks, matches)
    IN  IF found = <<>> THEN Undefined ELSE found[1]

\* all.filter((item) => item.geometry && isPointNearSimplifiedTrack(item.geometry, simplifiedTrack)),
\* or [] when the track is not found or has no geometry
Nearby(allPoints, track) ==
    IF IsUndefined(track) \/ ~HasGeometry(track)
    THEN <<>>
    ELSE Const(simplifyTrackForStationFilter(track.geometry), LAMBDA simplifiedTrack :
             LET near(item) == HasGeometry(item)
                               /\ isPointNearSimplifiedTrack(item.geometry, simplifiedTrack,
                                                             DEFAULT_STATION_THRESHOLD)
             IN  SelectSeq(allPoints, near))

\* no track simplified and no point tested
NoWork == [simplified |-> 0, tested |-> 0, against |-> {}]

\* the items of the four point collections that have a geometry
Candidates(loaded) ==
    SelectSeq(loaded.switches \o loaded.stations \o loaded.yards
                  \o loaded.accessRestrictions, HasGeometry)

\* getSegmentInfrastructure that simplifies the track for every point it
\* tests, as isStationNearTrack does
SegmentWorkPerPoint(loaded, trackId) ==
    Const(FindTrack(loaded.tracks, trackId), LAMBDA track :
        IF IsUndefined(track) \/ ~HasGeometry(track)
        THEN NoWork
        ELSE [simplified |-> Len(Candidates(loaded)),
              tested |-> Len(Candidates(loaded)),
              against |-> {simplifyTrackForStationFilter(track.geometry)}])

\* The calls getSegmentInfrastructure makes at lines 280-297: the number
\* of calls of simplifyTrackForStationFilter, the number of calls of
\* isPointNearSimplifiedTrack (one for every item with a geometry of the
\* four point collections) and the polylines passed to them.
SegmentWork(loaded, trackId) ==
    Const(FindTrack(loaded.tracks, trackId), LAMBDA track :
        IF IsUndefined(track) \/ ~HasGeometry(track)
        THEN NoWork
        ELSE [simplified |-> 1,
              tested |-> Len(Candidates(loaded)),
              against |-> {simplifyTrackForStationFilter(track.geometry)}])

\* all.filter((item) => item.trackId === trackId)
OnTrack(allItems, trackId) ==
    LET on(item) == "trackId" \in DOMAIN item /\ item.trackId = trackId
    IN  SelectSeq(allItems, on)

\* rawResult of getSegmentInfrastructure (lines 283-310)
RawSegment(loaded, trackId) ==
    Const(FindTrack(loaded.tracks, trackId), LAMBDA track :
        [trackId |-> trackId,
         track |-> track,
         tunnels |-> OnTrack(loaded.tunnels, trackId),
         bridges |-> OnTrack(loaded.bridges, trackId),
         switches |-> Nearby(loaded.switches, track),
         electrification |-> OnTrack(loaded.electrification, trackId),
         stations |-> Nearby(loaded.stations, track),
         yards |-> Nearby(loaded.yards, track),
         accessRestrictions |-> Nearby(loaded.accessRestrictions, track)])

\* The returned object of getSegmentInfrastructure (lines 316-326), or the
\* exception of a transform function
TransformSegment(rawResult, geometryDetail) ==
    LET list(c) == MapTransform(c, rawResult[c], geometryDetail)
    IN  Const([track |-> IF IsUndefined(rawResult.track)
                         THEN Undefined
                         ELSE transformTrackGeometry(rawResult.track, geometryDetail),
               tunnels |-> list("tunnels"),
               bridges |-> list("bridges"),
               switches |-> list("switches"),
               electrification |-> list("electrification"),
               stations |-> list("stations"),
               yards |-> list("yards"),
               accessRestrictions |-> list("accessRestrictions")],
              LAMBDA parts :
        IF \E c \in DOMAIN parts : IsThrow(parts[c])
        THEN Threw
        ELSE [trackId |-> rawResult.trackId,
              track |-> parts.track,
              tunnels |-> parts.tunnels.items,
              bridges |-> parts.bridges.items,
              switches |-> parts.switches.items,
              electrification |-> parts.electrification.items,
              stations |-> parts.stations.items,
              yards |-> parts.yards.items,
              accessRestrictions |-> parts.accessRestrictions.items])

\* the number of records a raw result holds
SegmentSize(rawResult) ==
    (IF IsUndefined(rawResult.track) THEN 0 ELSE 1)
    + Len(rawResult.tunnels) + Len(rawResult.bridges) + Len(rawResult.switches)
    + Len(rawResult.electrification) + Len(rawResult.stations)
    + Len(rawResult.yards) + Len(rawResult.accessRestrictions)

\* getSegmentInfrastructure that stores the transformed result in the cache
getSegmentInfrastructureCachesTransformed(entries, clock, loaded, trackId, geometryDetail) ==
    LET cacheKey == SegmentKey(trackId)
        cached == getCached(entries, clock, cacheKey)
    IN  Const(IF cached.found THEN cached.data ELSE RawSegment(loaded, trackId),
              LAMBDA rawResult :
        Const(TransformSegment(rawResult, geometryDetail), LAMBDA value :
            [value |-> value,
             entries |-> IF cached.found \/ IsThrow(value)
                         THEN cached.entries
                         ELSE setCache(cached.entries, clock, cacheKey, value),
             scanned |-> ~cached.found,
             reduced |-> SegmentSize(rawResult)]))

\* getSegmentInfrastructure whose transform step writes the transformed
\* records over the records of the raw result (track.geometry = ... in
\* place of { ...track, geometry }), which the cache entry holds
getSegmentInfrastructureTransformsInPlace(entries, clock, loaded, trackId, geometryDetail) ==
    LET cacheKey == SegmentKey(trackId)
        cached == getCached(entries, clock, cacheKey)
    IN  Const(IF cached.found THEN cached.data ELSE RawSegment(loaded, trackId),
              LAMBDA rawResult :
        Const(TransformSegment(rawResult, geometryDetail), LAMBDA value :
        Const(IF cached.found
              THEN cached.entries
              ELSE setCache(cached.entries, clock, cacheKey, rawResult),
              LAMBDA stored :
            [value |-> value,
             entries |-> IF IsThrow(value)
                         THEN stored
                         ELSE [stored EXCEPT ![cacheKey].data = value],
             scanned |-> ~cached.found,
             reduced |-> SegmentSize(rawResult),
             work |-> IF cached.found THEN NoWork ELSE SegmentWork(loaded, trackId)])))

\* getSegmentInfrastructure(trackId, geometryDetail) when the cache holds
\* entries, the clock reads clock and the data loader returns loaded
getSegmentInfrastructure(entries, clock, loaded, trackId, geometryDetail) ==
    LET cacheKey == SegmentKey(trackId)
        cached == getCached(entries, clock, cacheKey)
    IN  Const(IF cached.found THEN cached.data ELSE RawSegment(loaded, trackId),
              LAMBDA rawResult :
            [value |-> TransformSegment(rawResult, geometryDetail),
             entries |-> IF cached.found
                         THEN cached.entries
                         ELSE setCache(cached.entries, clock, cacheKey, rawResult),
             scanned |-> ~cached.found,
             reduced |-> SegmentSize(rawResult),
             work |-> IF cached.found THEN NoWork ELSE SegmentWork(loaded, trackId)])

\* parseBBox(bbox): bbox.split(',').map(Number) is a list of parts, a part
\* being <<n>> for the number n and <<>> for NaN
parseBBox(parts) ==
    IF Len(parts) # 4 \/ \E i \in 1..Len(parts) : parts[i] = <<>>
    THEN [threw |-> "ValidationError"]
    ELSE [minLon |-> parts[1][1], minLat |-> parts[2][1],
          maxLon |-> parts[3][1], maxLat |-> parts[4][1]]

----------------------------------------------------------------------------
(* get-infrastructure: the tool handler.  An optional argument that is    *)
(* absent is written as the value that takes the same branches: "" for    *)
(* trackId, 0 for radiusKm and limit (the schema admits neither), <<>>    *)
(* for bbox and infrastructureManager; latitude, longitude and            *)
(* electrified are <<>> when absent and <<value>> when given.             *)

\* radiusKm = 10 and limit = 100 in the destructuring of args
DefaultRadiusKm == 10
DefaultLimit == 100

\* toLowerCase() on a string written as the sequence of its characters
LowerChar(c) ==
    CASE c = "T" -> "t" [] c = "R" -> "r" [] c = "V" -> "v" [] c = "I" -> "i"
      [] OTHER -> c
toLowerCase(str) == [i \in 1..Len(str) |-> LowerChar(str[i])]

\* str.includes(part)
includes(str, part) ==
    \E k \in 0..(Len(str) - Len(part)) : SubSeq(str, k + 1, k + Len(part)) = part

\* the two filters of the handler on the tracks a region query returned
FilterTracks(tracks, electrified, infrastructureManager) ==
    LET isElectrified(t) == "electrified" \in DOMAIN t /\ t.electrified = electrified[1]
        managed(t) == /\ "infrastructureManager" \in DOMAIN t
                      /\ includes(toLowerCase(t.infrastructureManager),
                                   toLowerCase(infrastructureManager))
        byElectrified == IF electrified # <<>> THEN SelectSeq(tracks, isElectrified)
                         ELSE tracks
    IN  IF infrastructureManager # <<>> THEN SelectSeq(byElectrified, managed)
        ELSE byElectrified

\* syncStatus?.lastSync || null, null being <<>>
LastSync(loaded) ==
    IF loaded.syncStatus = <<>> THEN <<>> ELSE <<loaded.syncStatus[1].lastSync>>

\* the trackId branch with a count, for queryType 'all', of the records of
\* all eight categories of segmentData
SegmentResultCountsAll(queryType, trackId, lastSync, segmentData) ==
    LET hasTrack == ~IsUndefined(segmentData.track)
        head == [queryType |-> queryType, trackId |-> trackId, lastSync |-> lastSync]
    IN  CASE queryType = "all" ->
                [queryType |-> "all", trackId |-> trackId, lastSync |-> lastSync,
                 count |-> SegmentSize(segmentData),
                 track |-> segmentData.track,
                 tunnels |-> segmentData.tunnels,
                 bridges |-> segmentData.bridges,
                 switches |-> segmentData.switches,
                 electrification |-> segmentData.electrification,
                 stations |-> segmentData.stations]
          [] queryType = "tracks" ->
                [queryType |-> queryType, trackId |-> trackId, lastSync |-> lastSync,
                 count |-> IF hasTrack THEN 1 ELSE 0,
                 tracks |-> IF hasTrack THEN <<segmentData.track>> ELSE <<>>]
          [] queryType \in {"tunnels", "bridges", "switches", "electrification", "stations"} ->
                [k \in DOMAIN head \cup {"count", queryType} |->
                    IF k = "count" THEN Len(segmentData[queryType])
                    ELSE IF k = queryType THEN segmentData[queryType]
                    ELSE head[k]]
          [] OTHER -> Undefined

\* the trackId branch (lines 102-153) on the value segmentData that
\* getSegmentInfrastructure returned; no value for a queryType the
\* switch has no case for
SegmentResult(queryType, trackId, lastSync, segmentData) ==
    LET hasTrack == ~IsUndefined(segmentData.track)
        head == [queryType |-> queryType, trackId |-> trackId, lastSync |-> lastSync]
    IN  CASE queryType = "all" ->
                [queryType |-> "all", trackId |-> trackId, lastSync |-> lastSync,
                 count |-> (IF hasTrack THEN 1 ELSE 0)
                           + Len(segmentData.tunnels) + Len(segmentData.bridges)
                           + Len(segmentData.switches) + Len(segmentData.electrification)
                           + Len(segmentData.stations),
                 track |-> segmentData.track,
                 tunnels |-> segmentData.tunnels,
                 bridges |-> segmentData.bridges,
                 switches |-> segmentData.switches,
                 electrification |-> segmentData.electrification,
                 stations |-> segmentData.stations]
          [] queryType = "tracks" ->
                [queryType |-> queryType, trackId |-> trackId, lastSync |-> lastSync,
                 count |-> IF hasTrack THEN 1 ELSE 0,
                 tracks |-> IF hasTrack THEN <<segmentData.track>> ELSE <<>>]
          [] queryType \in {"tunnels", "bridges", "switches", "electrification", "stations"} ->
                [k \in DOMAIN head \cup {"count", queryType} |->
                    IF k = "count" THEN Len(segmentData[queryType])
                    ELSE IF k = queryType THEN segmentData[queryType]
                    ELSE head[k]]
          [] OTHER -> Undefined

\* the infrastructure types the handler queries by region
RegionCategories ==
    {"tracks", "tunnels", "bridges", "switches", "electrification", "stations"}

\* a region query the queryType does not make
NotAsked == [value |-> [items |-> <<>>], scanned |-> FALSE, reduced |-> 0]

\* The geographic branch after the bounding box is made (lines 165-243):
\* the region queries of the queryType with their results put in result.
RegionResult(entries, clock, loaded, args, parsedBBox) ==
    LET limit == IF args.limit = 0 THEN DefaultLimit ELSE args.limit
        queryType == args.queryType
        queried == IF queryType = "all" THEN RegionCategories
                   ELSE {queryType} \cap RegionCategories
        ask(c) == IF c \in queried
                  THEN getByBBox(c, entries, clock, loaded, parsedBBox, limit,
                                 args.geometryDetail)
                  ELSE NotAsked
        head == [queryType |-> queryType, lastSync |-> LastSync(loaded)]
    IN  Const([tracks |-> ask("tracks"), tunnels |-> ask("tunnels"),
               bridges |-> ask("bridges"), switches |-> ask("switches"),
               electrification |-> ask("electrification"), stations |-> ask("stations")],
              LAMBDA answers :
        Const(IF IsThrow(answers.tracks.value) THEN <<>>
              ELSE FilterTracks(answers.tracks.value.items, args.electrified,
                                args.infrastructureManager),
              LAMBDA filteredTracks :
            LET listOf(c) == IF c = "tracks" THEN filteredTracks
                             ELSE answers[c].value.items
                after == IF "tracks" \in queried THEN answers.tracks.entries ELSE entries
            IN  IF \E c \in queried : IsThrow(answers[c].value)
                THEN [value |-> Threw, entries |-> after, scanned |-> TRUE, reduced |-> 0]
                ELSE [value |-> [k \in DOMAIN head \cup {"count"} \cup queried |->
                                    IF k = "count"
                                    THEN Len(filteredTracks) + Len(answers.tunnels.value.items)
                                         + Len(answers.bridges.value.items)
                                         + Len(answers.switches.value.items)
                                         + Len(answers.electrification.value.items)
                                         + Len(answers.stations.value.items)
                                    ELSE IF k \in queried THEN listOf(k)
                                    ELSE head[k]],
                      entries |-> after,
                      scanned |-> \E c \in queried : answers[c].scanned,
                      reduced |-> answers.tracks.reduced + answers.tunnels.reduced
                                  + answers.bridges.reduced + answers.switches.reduced
                                  + answers.electrification.reduced
                                  + answers.stations.reduced]))

\* parsedBBox with a box around 18 E, 59 N for a call that gives no location
ParsedBBoxDefaultsToOrigin(args) ==
    LET radiusKm == IF args.radiusKm = 0 THEN DefaultRadiusKm ELSE args.radiusKm
    IN  IF args.bbox # <<>>
        THEN parseBBox(args.bbox)
        ELSE IF args.latitude # <<>> /\ args.longitude # <<>>
             THEN bboxFromPoint(args.latitude[1], args.longitude[1], radiusKm)
             ELSE bboxFromPoint(59 * UnitsPerDegree, 18 * UnitsPerDegree, radiusKm)

\* parsedBBox (lines 156-163): the box of bbox, else the box around
\* latitude and longitude, else a ValidationError
ParsedBBox(args) ==
    LET radiusKm == IF args.radiusKm = 0 THEN DefaultRadiusKm ELSE args.radiusKm
    IN  IF args.bbox # <<>>
        THEN parseBBox(args.bbox)
        ELSE IF args.latitude # <<>> /\ args.longitude # <<>>
             THEN bboxFromPoint(args.latitude[1], args.longitude[1], radiusKm)
             ELSE [threw |-> "ValidationError"]

\* the trackId branch was not taken
NoSegment(entries) ==
    [value |-> Undefined, entries |-> entries, scanned |-> FALSE, reduced |-> 0]

\* getInfrastructureHandler(args) when the result cache holds entries, the
\* clock reads clock and the data loader returns loaded: the value it
\* returns or the error it throws, the result cache it leaves, whether it
\* filtered loaded collections and the number of records it transformed.
getInfrastructureHandler(entries, clock, loaded, args) ==
    Const(IF args.trackId # ""
          THEN getSegmentInfrastructure(entries, clock, loaded, args.trackId,
                                        args.geometryDetail)
          ELSE NoSegment(entries),
          LAMBDA segment :
        Const(IF IsUndefined(segment.value) \/ IsThrow(segment.value)
              THEN Undefined
              ELSE SegmentResult(args.queryType, args.trackId, LastSync(loaded),
                                 segment.value),
              LAMBDA result :
            LET parsedBBox == ParsedBBox(args)
            IN  IF IsThrow(segment.value)
                THEN segment
                ELSE IF ~IsUndefined(result)
                     THEN [value |-> result, entries |-> segment.entries,
                           scanned |-> segment.scanned, reduced |-> segment.reduced]
                     ELSE IF IsThrow(parsedBBox)
                          THEN [value |-> parsedBBox, entries |-> segment.entries,
                                scanned |-> segment.scanned, reduced |-> segment.reduced]
                          ELSE Const(RegionResult(segment.entries, clock, loaded, args,
                                                  parsedBBox),
                                     LAMBDA region :
                                   [value |-> region.value, entries |-> region.entries,
                                    scanned |-> region.scanned \/ segment.scanned,
                                    reduced |-> region.reduced + segment.reduced])))

----------------------------------------------------------------------------
(* Specification of the simplification driver: every polyline on a small  *)
(* grid, every tolerance, simplified once and then once more.             *)

MaxLen == 4
MaxCoord == 1
GridStep == 4
MaxTol == 3

GridPoints == {<<GridStep * i, GridStep * j>> : i, j \in 0..MaxCoord}

Polylines == UNION {[1..n -> GridPoints] : n \in 0..MaxLen}

\* Each point of cs with its position appended.  simplifyPath reads only
\* the two coordinates of a point, so on tagged points it makes the same
\* decisions and its result shows which positions it kept.
Tagged(cs) == [i \in 1..Len(cs) |-> <<cs[i][1], cs[i][2], i>>]

KeptIndices(cs, tol) ==
    LET r == simplifyPath(Tagged(cs), tol) IN [j \in 1..Len(r) |-> r[j][3]]

IdleSimplify ==
    /\ coords = <<>>
    /\ tolerance = 1
    /\ simplified = NotRun
    /\ kept = NotRun
    /\ resimplified = NotRun
    /\ spc = "idle"

\* no call made yet
NoCall == [op |-> "none"]
NoResponse == [none |-> TRUE]

\* no call has filtered a collection
NoScan == [key |-> <<>>]
IdleTrace ==
    /\ lastScan = NoScan
    /\ answered = <<>>
    /\ repeat = FALSE
    /\ held = <<>>
    /\ filesAt = 0
    /\ work = NoWork
    /\ builtFrom = <<>>

\* no call in flight and no file read
IdleLoader ==
    /\ loadedAt = <<>>
    /\ dataCache = <<>>
    /\ tasks = <<>>
    /\ readLog = <<>>

\* no sync run made
\* no call of getValidToken made
NoTokenStep == [kind |-> "none"]
IdleToken ==
    /\ cachedToken = <<>>
    /\ env = [username |-> "", password |-> "", apiToken |-> ""]
    /\ getting = <<>>
    /\ logins = 0
    /\ tokenStep = NoTokenStep

IdleSync ==
    /\ dataDir = <<>>
    /\ refreshed = {}
    /\ IdleToken

\* the engine with no data loaded and nothing cached
IdleEngine ==
    /\ dataFiles = 0
    /\ resultCache = [k \in {} |-> 0]
    /\ now = 0
    /\ call = NoCall
    /\ response = NoResponse
    /\ scanned = FALSE
    /\ reduced = 0
    /\ IdleTrace
    /\ IdleLoader
    /\ IdleSync

\* no proximity test made
IdleStation ==
    /\ stationGeom = NotRun
    /\ trackGeom = NotRun
    /\ thresholdDeg = 0
    /\ nearTrack = NotRun
    /\ preSimplified = NotRun
    /\ nearPre = NotRun
    /\ stpc = "idle"

IdleFilter ==
    /\ geom = NotRun
    /\ box = NotRun
    /\ hit = NotRun
    /\ center = NotRun
    /\ made = NotRun
    /\ bpc = "idle"
    /\ IdleStation

InitSimplify ==
    /\ IdleFilter
    /\ IdleEngine
    /\ coords \in Polylines
    /\ tolerance \in 1..MaxTol
    /\ simplified = NotRun
    /\ kept = NotRun
    /\ resimplified = NotRun
    /\ spc = "start"

Simplify ==
    /\ spc = "start"
    /\ simplified' = simplifyPath(coords, tolerance)
    /\ kept' = KeptIndices(coords, tolerance)
    /\ spc' = "simplified"
    /\ UNCHANGED <<coords, tolerance, resimplified, filterVars, engineVars>>

Resimplify ==
    /\ spc = "simplified"
    /\ resimplified' = simplifyPath(simplified, tolerance)
    /\ spc' = "resimplified"
    /\ UNCHANGED <<coords, tolerance, simplified, kept, filterVars, engineVars>>

NextSimplify == Simplify \/ Resimplify

SpecSimplify == InitSimplify /\ [][NextSimplify]_vars

Simplified == spc \in {"simplified", "resimplified"}

\* C1: for every polyline with at least 2 points and every tolerance > 0,
\* the simplified path starts with the first input point, ends with the
\* last input point and has no more points than the input.
C1_EndpointsKept ==
    (Simplified /\ Len(coords) >= 2) =>
        /\ Len(simplified) >= 2
        /\ simplified[1] = coords[1]
        /\ simplified[Len(simplified)] = coords[Len(coords)]
        /\ Len(simplified) <= Len(coords)

\* a polyline that was split once: an interior point kept, another dropped
C1_Witness ==
    /\ Simplified
    /\ Len(coords) = MaxLen
    /\ Len(simplified) = MaxLen - 1

\* C2: the simplified path is a subsequence of the input: its points are
\* the input points at strictly increasing positions, so nothing is
\* introduced, reordered or repeated where the two halves are joined.
C2_Subsequence ==
    Simplified =>
        /\ Len(kept) = Len(simplified)
        /\ \A j \in 1..Len(kept) :
              /\ kept[j] \in 1..Len(coords)
              /\ simplified[j] = coords[kept[j]]
        /\ \A j \in 1..(Len(kept) - 1) : kept[j] < kept[j + 1]

\* two halves were joined at an interior point that occurs once in the result
C2_Witness ==
    /\ Simplified
    /\ Len(simplified) >= 3
    /\ \E j \in 2..(Len(simplified) - 1) :
          \A k \in 1..Len(simplified) : simplified[k] = simplified[j] => k = j

\* C3: every dropped point is within the tolerance (perpendicular
\* distance) of the line through the two kept points around it.
C3_DroppedWithinTolerance ==
    Simplified =>
        \A j \in 1..(Len(kept) - 1) :
            \A i \in (kept[j] + 1)..(kept[j + 1] - 1) :
                ~ExceedsTolerance(
                    perpendicularDistance(coords[i], coords[kept[j]], coords[kept[j + 1]]),
                    tolerance)

\* a point off the line of its neighbours was dropped
C3_Witness ==
    /\ Simplified
    /\ \E j \in 1..(Len(kept) - 1) :
          \E i \in (kept[j] + 1)..(kept[j + 1] - 1) :
              perpendicularDistance(coords[i], coords[kept[j]], coords[kept[j + 1]]).a > 0

\* C4: simplifying the simplified path again with the same tolerance
\* returns it unchanged.
C4_Idempotent ==
    (spc = "resimplified") => resimplified = simplified

\* the second pass ran on a path that the first pass had both split and shortened
C4_Witness ==
    /\ spc = "resimplified"
    /\ Len(simplified) >= 3
    /\ Len(simplified) < Len(coords)

\* The calls of simplifyPath(cs, tol) that recurse (line 38), down to
\* depth levels of recursion: for each, the length of its argument and
\* the maxIndex it splits at.
RECURSIVE Recursions(_, _, _)
Recursions(cs, tol, depth) ==
    IF Len(cs) <= 2
    THEN {}
    ELSE LET scan == MaxScan(cs, Len(cs) - 1)
         IN  IF ExceedsTolerance(scan.maxDist, tol)
             THEN {[length |-> Len(cs), maxIndex |-> scan.maxIndex]}
                  \cup (IF depth = 0
                        THEN {}
                        ELSE Recursions(Slice(cs, 0, scan.maxIndex + 1), tol, depth - 1)
                             \cup Recursions(Slice(cs, scan.maxIndex, Len(cs)), tol,
                                             depth - 1))
             ELSE {}

\* C25: wherever simplifyPath recurses on a polyline, maxIndex is neither
\* the first nor the last index, so coords.slice(0, maxIndex + 1) and
\* coords.slice(maxIndex) are both shorter than coords; and the call
\* returns a polyline no longer than its argument.
C25_SplitsInterior ==
    /\ \A r \in Recursions(coords, tolerance, Len(coords)) :
           /\ 1 <= r.maxIndex /\ r.maxIndex <= r.length - 2
           /\ r.maxIndex + 1 < r.length
           /\ r.length - r.maxIndex < r.length
    /\ Simplified => Len(simplified) <= Len(coords)

\* simplifyPath returned after recursing on the polyline and again on one
\* of its halves
C25_Witness ==
    /\ Simplified
    /\ Len(simplified) = MaxLen
    /\ \E r \in Recursions(coords, tolerance, Len(coords)) : r.length < Len(coords)

----------------------------------------------------------------------------
(* Specification of the station proximity driver: a station on a corner   *)
(* of a square, a track through corners of the square, tested once with   *)
(* isStationNearTrack and once with simplifyTrackForStationFilter and     *)
(* isPointNearSimplifiedTrack.                                            *)

MaxTrackLen == 3

\* the side of the square: a corner lies further than
\* STATION_FILTER_SIMPLIFICATION_TOLERANCE from the opposite side and
\* nearer than that to the diagonal
Side == STATION_FILTER_SIMPLIFICATION_TOLERANCE + DEFAULT_STATION_THRESHOLD \div 2

Corners == {<<Side * i, Side * j>> : i, j \in 0..1}

TrackGeometries ==
    {[type |-> "LineString", coordinates |-> l] :
        l \in UNION {[1..n -> Corners] : n \in 0..MaxTrackLen}}

StationGeometries == {[type |-> "Point", coordinates |-> p] : p \in Corners}

\* thresholdDegrees: the default, and values on both sides of it
Thresholds == {0, DEFAULT_STATION_THRESHOLD, 2 * DEFAULT_STATION_THRESHOLD}

InitStation ==
    /\ IdleSimplify
    /\ IdleEngine
    /\ geom = NotRun
    /\ box = NotRun
    /\ hit = NotRun
    /\ center = NotRun
    /\ made = NotRun
    /\ bpc = "idle"
    /\ stationGeom \in StationGeometries
    /\ trackGeom \in TrackGeometries
    /\ thresholdDeg \in Thresholds
    /\ nearTrack = NotRun
    /\ preSimplified = NotRun
    /\ nearPre = NotRun
    /\ stpc = "start"

\* isStationNearTrack(stationGeom, trackGeom, thresholdDeg)
NearTrack ==
    /\ stpc = "start"
    /\ nearTrack' = isStationNearTrack(stationGeom, trackGeom, thresholdDeg)
    /\ stpc' = "tested"
    /\ UNCHANGED <<stationGeom, trackGeom, thresholdDeg, preSimplified, nearPre,
                   geom, box, hit, center, made, bpc, simplifyVars, engineVars>>

\* const simplified = simplifyTrackForStationFilter(trackGeom);
\* isPointNearSimplifiedTrack(stationGeom, simplified, thresholdDeg)
NearSimplified ==
    /\ stpc = "tested"
    /\ \E simplifiedCoords \in {simplifyTrackForStationFilter(trackGeom)} :
           /\ preSimplified' = simplifiedCoords
           /\ nearPre' = isPointNearSimplifiedTrack(stationGeom, simplifiedCoords,
                                                    thresholdDeg)
    /\ stpc' = "both"
    /\ UNCHANGED <<stationGeom, trackGeom, thresholdDeg, nearTrack,
                   geom, box, hit, center, made, bpc, simplifyVars, engineVars>>

NextStation == NearTrack \/ NearSimplified

SpecStation == InitStation /\ [][NextStation]_vars

\* C28: isStationNearTrack(station, track, threshold) returns what
\* isPointNearSimplifiedTrack(station, simplifyTrackForStationFilter(track),
\* threshold) returns, and both return false when the track's polyline is
\* empty.
C28_SameAsPreSimplified ==
    (stpc = "both") =>
        /\ nearTrack = nearPre
        /\ Len(trackGeom.coordinates) = 0 => (~nearTrack /\ ~nearPre)

\* both tests found the station near a track that simplifyPath had
\* shortened, the station being a vertex that it dropped
C28_Witness ==
    /\ stpc = "both"
    /\ nearTrack
    /\ nearPre
    /\ Len(preSimplified) < Len(trackGeom.coordinates)
    /\ \E i \in 1..Len(trackGeom.coordinates) :
           /\ trackGeom.coordinates[i] = stationGeom.coordinates
           /\ \A j \in 1..Len(preSimplified) :
                  preSimplified[j] # stationGeom.coordinates

----------------------------------------------------------------------------
(* Specification of the spatial filter driver: geometryIntersectsBBox on  *)
(* every small geometry and box, bboxFromPoint on the centres and radii   *)
(* the tool's input schema admits.                                        *)

MaxBoxLon == 2
MaxBoxLat == 1
MaxVertices == 2
MaxRadiusKm == 3

\* radiusKmSchema: z.number().min(1).max(50)
LargestRadiusKm == 50

BoxPoints == (0..MaxBoxLon) \X (0..MaxBoxLat)

BoxLines == UNION {[1..n -> BoxPoints] : n \in 0..MaxVertices}

Geometries ==
    {[type |-> "Point", coordinates |-> p] : p \in BoxPoints}
    \cup {[type |-> "LineString", coordinates |-> l] : l \in BoxLines}
    \cup {[type |-> "Polygon", coordinates |-> <<l>>] : l \in BoxLines}
    \cup {[type |-> "MultiLineString", coordinates |-> <<>>]}

\* every box, the ill-formed ones (min > max) included: the functions take
\* whatever parseBBox returned
Boxes ==
    {[minLon |-> a, minLat |-> b, maxLon |-> c, maxLat |-> d] :
        a, c \in 0..MaxBoxLon, b, d \in 0..MaxBoxLat}

\* latitudeSchema 55 .. 69, longitudeSchema 11 .. 24, radiusKmSchema 1 .. 50
Centers ==
    {[lat |-> la * UnitsPerDegree, lon |-> lo * UnitsPerDegree, radiusKm |-> r] :
        la \in 55..69, lo \in 11..24,
        r \in (1..MaxRadiusKm) \cup {DefaultRadiusKm, LargestRadiusKm}}

InitFilter ==
    /\ IdleSimplify
    /\ IdleEngine
    /\ IdleStation
    /\ \/ /\ geom \in Geometries
          /\ box \in Boxes
          /\ center = NotRun
          /\ bpc = "intersect"
       \/ /\ geom = NotRun
          /\ box = NotRun
          /\ center \in Centers
          /\ bpc = "frompoint"
    /\ hit = NotRun
    /\ made = NotRun

Intersect ==
    /\ bpc = "intersect"
    /\ hit' = geometryIntersectsBBox(geom, box)
    /\ bpc' = "intersected"
    /\ UNCHANGED <<geom, box, center, made, stationVars, simplifyVars, engineVars>>

FromPoint ==
    /\ bpc = "frompoint"
    /\ made' = bboxFromPoint(center.lat, center.lon, center.radiusKm)
    /\ bpc' = "made"
    /\ UNCHANGED <<geom, box, hit, center, stationVars, simplifyVars, engineVars>>

NextFilter == Intersect \/ FromPoint

SpecFilter == InitFilter /\ [][NextFilter]_vars

InRange(p, b) ==
    b.minLon <= p[1] /\ p[1] <= b.maxLon /\ b.minLat <= p[2] /\ p[2] <= b.maxLat

\* C8: geometryIntersectsBBox is true for a point exactly when the point
\* passes the inclusive range test on both axes, and for a polyline exactly
\* when one of its vertices does; a polyline that only crosses the box
\* between two vertices is reported as not intersecting.
C8_VertexSampling ==
    (bpc = "intersected") =>
        /\ geom.type = "Point" => (hit <=> InRange(geom.coordinates, box))
        /\ geom.type = "LineString" =>
              (hit <=> \E i \in 1..Len(geom.coordinates) : InRange(geom.coordinates[i], box))

\* a polyline whose segment runs through the box, both vertices outside, not hit
C8_Witness ==
    /\ bpc = "intersected"
    /\ geom.type = "LineString"
    /\ Len(geom.coordinates) = 2
    /\ geom.coordinates[1][2] = geom.coordinates[2][2]
    /\ box.minLat <= geom.coordinates[1][2] /\ geom.coordinates[1][2] <= box.maxLat
    /\ geom.coordinates[1][1] < box.minLon
    /\ box.minLon <= box.maxLon
    /\ box.maxLon < geom.coordinates[2][1]
    /\ hit = FALSE

\* C9: the box made from a centre and a radius > 0 contains the centre.
C9_CenterInBox ==
    (bpc = "made") =>
        /\ made.minLon <= center.lon /\ center.lon <= made.maxLon
        /\ made.minLat <= center.lat /\ center.lat <= made.maxLat

\* a box was made around a centre with room on every side
C9_Witness ==
    /\ bpc = "made"
    /\ made.minLon < center.lon /\ center.lon < made.maxLon
    /\ made.minLat < center.lat /\ center.lat < made.maxLat
    /\ isPointInBBox(center.lon, center.lat, made)

----------------------------------------------------------------------------
(* The data files: a catalogue of records around 18 E, 59 N.  The data    *)
(* loader returns the first records of each category.  Records go in      *)
(* rounds of RoundLen, a later round repeating the shapes of the first a   *)
(* little further north under its own ids.                                *)

MaxRecs == 4

OriginLon == 18 * UnitsPerDegree
OriginLat == 59 * UnitsPerDegree
RoundLen == 4
RoundShift == 100

Shape(i) == ((i - 1) % RoundLen) + 1
Round(i) == (i - 1) \div RoundLen

At(i, x, y) == <<OriginLon + x, OriginLat + y + RoundShift * Round(i)>>

LineString(cs) == [type |-> "LineString", coordinates |-> cs]
Point(c) == [type |-> "Point", coordinates |-> c]

\* bandel, the designation of a track
Bandel(i) ==
    ToString(CASE Shape(i) = 1 -> 182 [] Shape(i) = 2 -> 421
               [] Shape(i) = 3 -> 500 [] OTHER -> 600) \o
    (IF Round(i) = 0 THEN "" ELSE "-" \o ToString(Round(i)))

IdOf(prefix, i) == prefix \o "-" \o ToString(i)

TrackAt(i) ==
    CASE Shape(i) = 1 ->
            [id |-> "TRK-" \o Bandel(i), designation |-> Bandel(i), electrified |-> TRUE,
             infrastructureManager |-> <<"T", "R", "V">>,
             geometry |-> LineString(<<At(i, 0, 0), At(i, 10001, 15001),
                                       At(i, 20000, 3), At(i, 30000, 0)>>)]
      [] Shape(i) = 2 ->
            [id |-> "TRK-" \o Bandel(i), designation |-> Bandel(i), electrified |-> FALSE,
             geometry |-> LineString(<<At(i, 0, 20000), At(i, 30000, 20000)>>)]
      [] Shape(i) = 3 ->
            [id |-> "TRK-" \o Bandel(i), designation |-> Bandel(i), electrified |-> FALSE,
             infrastructureManager |-> <<"I", "n", "l">>,
             geometry |-> LineString(<<At(i, 2000, 4000), At(i, 16001, 4101),
                                       At(i, 29000, 4000)>>)]
      [] OTHER ->
            [id |-> "TRK-" \o Bandel(i), designation |-> Bandel(i), electrified |-> TRUE]

TunnelAt(i) ==
    CASE Shape(i) = 1 ->
            [id |-> IdOf("TUN", i), trackId |-> Bandel(i),
             geometry |-> LineString(<<At(i, 5000, 1000), At(i, 6001, 2001),
                                       At(i, 7000, 1000)>>)]
      [] Shape(i) = 2 ->
            [id |-> IdOf("TUN", i), trackId |-> Bandel(i),
             geometry |-> LineString(<<At(i, 1000, 20000), At(i, 2001, 20000)>>)]
      [] Shape(i) = 3 ->
            [id |-> IdOf("TUN", i), trackId |-> Bandel(i - 2),
             geometry |-> LineString(<<At(i, 21000, 1), At(i, 22000, 0)>>)]
      [] OTHER -> [id |-> IdOf("TUN", i), trackId |-> Bandel(i)]

BridgeAt(i) ==
    CASE Shape(i) = 1 ->
            [id |-> IdOf("BRG", i), trackId |-> Bandel(i),
             geometry |-> Point(At(i, 8001, 0))]
      [] Shape(i) = 2 ->
            [id |-> IdOf("BRG", i), trackId |-> Bandel(i - 1),
             geometry |-> LineString(<<At(i, 9000, 0), At(i, 9501, 401),
                                       At(i, 10000, 0)>>)]
      [] Shape(i) = 3 ->
            [id |-> IdOf("BRG", i), trackId |-> Bandel(i - 1),
             geometry |-> LineString(<<At(i, 3000, 20000), At(i, 4000, 20000)>>)]
      [] OTHER ->
            \* a row whose Bandel is the text 'null' makes no track, but its
            \* bridge keeps that text as trackId
            [id |-> IdOf("BRG", i), trackId |-> "null",
             geometry |-> LineString(<<At(i, 26000, 30000), At(i, 27000, 30000)>>)]

ElectrificationAt(i) ==
    IF Shape(i) = RoundLen
    THEN [id |-> IdOf("ELE", i), trackId |-> Bandel(i)]
    ELSE [id |-> IdOf("ELE", i), trackId |-> Bandel(i),
          geometry |-> TrackAt(i).geometry]

\* a switch, station, yard or access restriction: close to the first
\* track, at the station threshold from its simplified line, far from it,
\* or without a position
PointRecordAt(prefix, i, x) ==
    CASE Shape(i) = 1 -> [id |-> IdOf(prefix, i), geometry |-> Point(At(i, x, 5001))]
      [] Shape(i) = 2 -> [id |-> IdOf(prefix, i), geometry |-> Point(At(i, x, 10000))]
      [] Shape(i) = 3 -> [id |-> IdOf(prefix, i), geometry |-> Point(At(i, x, 25000))]
      [] OTHER -> [id |-> IdOf(prefix, i)]

\* what loadTracks() .. loadAccessRestrictions() and loadSyncStatus()
\* return from data files of n records of each category
Dataset(n) ==
    [tracks |-> [i \in 1..n |-> TrackAt(i)],
     tunnels |-> [i \in 1..n |-> TunnelAt(i)],
     bridges |-> [i \in 1..n |-> BridgeAt(i)],
     switches |-> [i \in 1..n |-> PointRecordAt("SWI", i, 15001)],
     electrification |-> [i \in 1..n |-> ElectrificationAt(i)],
     stations |-> [i \in 1..n |-> PointRecordAt("STA", i, 11000)],
     yards |-> [i \in 1..n |-> PointRecordAt("YRD", i, 12000)],
     accessRestrictions |-> [i \in 1..n |-> PointRecordAt("ACR", i, 13001)],
     syncStatus |-> IF n % 2 = 0 THEN <<[lastSync |-> IdOf("sync", n)]>> ELSE <<>>]

\* the cache of the data loader, filled from the data files
cache == Dataset(dataFiles)

----------------------------------------------------------------------------
(* Specification of the client: calls of getSegmentInfrastructure and of  *)
(* the eight region queries, in any order, over loaded data files, with   *)
(* the clock standing still.                                              *)

MaxLimit == 2

GeometryDetails == {"metadata", "corridor", "precise"}

\* the designation of a track, of a track without geometry, and the
\* trackId of a bridge that no track carries
TrackIds == {"182", "600", "null"}

\* the whole area of the catalogue, and its south-west corner with the
\* first vertex of the first track on its edge
WholeArea ==
    [minLon |-> OriginLon - 1000, minLat |-> OriginLat - 1000,
     maxLon |-> OriginLon + 40000, maxLat |-> OriginLat + 40000]
SouthWest ==
    [minLon |-> OriginLon, minLat |-> OriginLat,
     maxLon |-> OriginLon + 12000, maxLat |-> OriginLat + 6000]
QueryBoxes == {WholeArea, SouthWest}

\* the whole area with west and east exchanged: minLon > maxLon
Inverted ==
    [minLon |-> WholeArea.maxLon, minLat |-> WholeArea.minLat,
     maxLon |-> WholeArea.minLon, maxLat |-> WholeArea.maxLat]

InitClient ==
    /\ IdleSimplify
    /\ IdleFilter
    /\ IdleTrace
    /\ IdleLoader
    /\ IdleSync
    /\ dataFiles \in {0, MaxRecs}
    /\ resultCache = EmptyCache
    /\ now = 0
    /\ call = NoCall
    /\ response = NoResponse
    /\ scanned = FALSE
    /\ reduced = 0

\* await lastkajenClient.getSegmentInfrastructure(trackId, geometryDetail)
GetSegment(trackId, geometryDetail) ==
    \E r \in {getSegmentInfrastructure(resultCache, now, cache, trackId, geometryDetail)} :
        /\ call' = [op |-> "getSegmentInfrastructure", trackId |-> trackId,
                     geometryDetail |-> geometryDetail]
        /\ response' = r.value
        /\ resultCache' = r.entries
        /\ scanned' = r.scanned
        /\ reduced' = r.reduced
        /\ UNCHANGED <<dataFiles, now, simplifyVars, filterVars, traceVars, loaderVars, syncVars>>

\* await lastkajenClient.get<Category>ByBBox(bbox, limit, geometryDetail)
GetByBBox(category, bbox, limit, geometryDetail) ==
    \E r \in {getByBBox(category, resultCache, now, cache, bbox, limit, geometryDetail)} :
        /\ call' = [op |-> "getByBBox", category |-> category, bbox |-> bbox,
                     limit |-> limit, geometryDetail |-> geometryDetail]
        /\ response' = r.value
        /\ resultCache' = r.entries
        /\ scanned' = r.scanned
        /\ reduced' = r.reduced
        /\ UNCHANGED <<dataFiles, now, simplifyVars, filterVars, traceVars, loaderVars, syncVars>>

NextClient ==
    \/ \E trackId \in TrackIds, geometryDetail \in GeometryDetails :
           GetSegment(trackId, geometryDetail)
    \/ \E category \in Categories, bbox \in QueryBoxes, limit \in 0..MaxLimit,
          geometryDetail \in GeometryDetails :
           GetByBBox(category, bbox, limit, geometryDetail)

SpecClient == InitClient /\ [][NextClient]_vars

\* the records of a category that the last call returned
Returned(category) ==
    IF call.op = "none" \/ IsThrow(response)
    THEN <<>>
    ELSE IF call.op = "getByBBox"
         THEN IF call.category = category THEN response.items ELSE <<>>
         ELSE IF category = "tracks"
              THEN IF IsUndefined(response.track) THEN <<>> ELSE <<response.track>>
              ELSE response[category]

\* the stored records with the id of a returned record
StoredAs(category, r) ==
    {cache[category][i] : i \in {j \in 1..Len(cache[category]) : cache[category][j].id = r.id}}

\* C5: with detail level 'precise', every returned record of every
\* category carries the geometry of the stored record unmodified: the
\* same coordinates, in the same number and order.
C5_PreciseUnmodified ==
    (call.op # "none" /\ call.geometryDetail = "precise") =>
        \A category \in Categories :
            \A i \in 1..Len(Returned(category)) :
                LET r == Returned(category)[i]
                IN  \E s \in StoredAs(category, r) : GeometryOf(r) = GeometryOf(s)

\* C6: with detail level 'metadata' the call returns, and every returned
\* record of every category is a stored record less its geometry field:
\* no geometry, and every other attribute as stored.
C6_MetadataOmitsGeometry ==
    (call.op # "none" /\ call.geometryDetail = "metadata") =>
        /\ ~IsThrow(response)
        /\ \A category \in Categories :
               \A i \in 1..Len(Returned(category)) :
                   LET r == Returned(category)[i]
                   IN  /\ ~HasGeometry(r)
                       /\ \E s \in StoredAs(category, r) : WithoutGeometry(s) = r

\* a segment returned at the metadata level with records of all eight
\* categories, the track and the tunnels being stored with a geometry
C6_Witness ==
    /\ call.op = "getSegmentInfrastructure"
    /\ call.geometryDetail = "metadata"
    /\ ~IsThrow(response)
    /\ \A category \in Categories : Len(Returned(category)) > 0
    /\ \E s \in StoredAs("tracks", response.track) : HasGeometry(s)
    /\ \A i \in 1..Len(response.tunnels) :
           \E s \in StoredAs("tunnels", response.tunnels[i]) : HasGeometry(s)

\* what the last call returns when it is made with nothing cached
Uncached ==
    IF call.op = "getSegmentInfrastructure"
    THEN getSegmentInfrastructure(EmptyCache, now, cache, call.trackId,
                                  call.geometryDetail).value
    ELSE getByBBox(call.category, EmptyCache, now, cache, call.bbox, call.limit,
                   call.geometryDetail).value

\* C10: whatever was called before and is cached, a call returns what
\* the same call returns from an empty cache over the same data, and a
\* cache entry holds the records as they are stored.
C10_CacheTransparent ==
    /\ call.op # "none" => response = Uncached
    /\ \A key \in DOMAIN resultCache :
           IF key[1] = "segment"
           THEN resultCache[key].data = RawSegment(cache, key[2])
           ELSE \A i \in 1..Len(resultCache[key].data) :
                    \E j \in 1..Len(cache.tracks) :
                        resultCache[key].data[i] = cache.tracks[j]

\* a segment answered from the cache at the corridor level, with a track
\* whose geometry the reduction changes, and a region query answered
\* from the cache with a limit that cuts the cached list
C10_Witness ==
    /\ call.op # "none"
    /\ ~scanned
    /\ ~IsThrow(response)
    /\ \/ /\ call.op = "getSegmentInfrastructure"
          /\ call.geometryDetail = "corridor"
          /\ ~IsUndefined(response.track)
          /\ \E s \in StoredAs("tracks", response.track) :
                 HasGeometry(s) /\ s.geometry # response.track.geometry
       \/ /\ call.op = "getByBBox"
          /\ call.limit > 0
          /\ Len(response.items) = call.limit
          /\ Len(resultCache[BBoxKey("tracks", call.bbox)].data) > call.limit

\* C13: a query by an id that is the id or designation of no track
\* returns, without an error, no owner track and an empty list for each
\* of the seven associated categories, whatever records are stored.
C13_NoMatchIsEmpty ==
    (call.op = "getSegmentInfrastructure"
     /\ IsUndefined(FindTrack(cache.tracks, call.trackId))) =>
        /\ ~IsThrow(response)
        /\ IsUndefined(response.track)
        /\ \A category \in Categories \ {"tracks"} : response[category] = <<>>

\* C14: no call fails on a record stored without a geometry, and no such
\* record is among the records a call returns, at any detail level.
C14_MalformedSkipped ==
    call.op # "none" =>
        /\ ~IsThrow(response)
        /\ \A category \in Categories :
               \A i \in 1..Len(Returned(category)) :
                   \E s \in StoredAs(category, Returned(category)[i]) : HasGeometry(s)

----------------------------------------------------------------------------
(* Specification of the tool: calls of getInfrastructureHandler, in any   *)
(* order, over loaded data files, with the clock standing still.          *)

QueryTypes ==
    {"tracks", "tunnels", "bridges", "switches", "electrification", "stations",
     "yards", "access_restrictions", "all"}

\* the id of a track, and an id no record carries
HandlerTrackIds == {"TRK-182", "999"}

NoLocation == [bbox |-> <<>>, latitude |-> <<>>, longitude |-> <<>>, radiusKm |-> 0]

\* bbox: "minLon,minLat,maxLon,maxLat"
AsBBox(b) ==
    [bbox |-> <<<<b.minLon>>, <<b.minLat>>, <<b.maxLon>>, <<b.maxLat>>>>,
     latitude |-> <<>>, longitude |-> <<>>, radiusKm |-> 0]

\* latitude: 59, longitude: 18, and radiusKm or none
AroundOrigin(radiusKm) ==
    [bbox |-> <<>>, latitude |-> <<OriginLat>>, longitude |-> <<OriginLon>>,
     radiusKm |-> radiusKm]

\* a latitude without a longitude
LatitudeOnly ==
    [bbox |-> <<>>, latitude |-> <<OriginLat>>, longitude |-> <<>>, radiusKm |-> 0]

Args(queryType, trackId, location, electrified, infrastructureManager, limit, geometryDetail) ==
    [queryType |-> queryType, trackId |-> trackId, bbox |-> location.bbox,
     latitude |-> location.latitude, longitude |-> location.longitude,
     radiusKm |-> location.radiusKm, electrified |-> electrified,
     infrastructureManager |-> infrastructureManager, limit |-> limit,
     geometryDetail |-> geometryDetail]

\* The calls made: by track for every queryType; by region for every
\* queryType and limit; of tracks by region with every filter; around a
\* point with the default and with a given radius; and with no track and
\* no complete location; and with a bbox whose minLon exceeds its maxLon.
\* An argument the branch taken does not read is left out.
Requests ==
    {Args(q, t, NoLocation, <<>>, <<>>, 0, "corridor") :
        q \in QueryTypes, t \in HandlerTrackIds}
    \cup {Args("all", t, NoLocation, <<>>, <<>>, 0, "metadata") : t \in HandlerTrackIds}
    \cup {Args(q, "", AsBBox(WholeArea), <<>>, <<>>, limit, "corridor") :
        q \in QueryTypes \ {"tracks"}, limit \in 0..MaxLimit}
    \cup {Args("tracks", "", AsBBox(WholeArea), e, m, limit, "corridor") :
        e \in {<<>>, <<TRUE>>, <<FALSE>>}, m \in {<<>>, <<"r", "V">>},
        limit \in 0..MaxLimit}
    \cup {Args("all", "", AsBBox(WholeArea), e, <<>>, limit, "corridor") :
        e \in {<<TRUE>>, <<FALSE>>}, limit \in 0..MaxLimit}
    \cup {Args("tracks", "", AroundOrigin(0), <<>>, <<>>, limit, d) :
        limit \in 0..MaxLimit, d \in {"metadata", "precise"}}
    \cup {Args(q, "", AroundOrigin(1), <<>>, <<>>, limit, "corridor") :
        q \in {"tunnels", "stations"}, limit \in 0..MaxLimit}
    \cup {Args(q, "", NoLocation, <<>>, <<>>, 0, "corridor") : q \in QueryTypes}
    \cup {Args("tracks", "", LatitudeOnly, <<>>, <<>>, 0, "corridor")}
    \cup {Args(q, "999", AsBBox(SouthWest), <<>>, <<>>, 0, "corridor") :
        q \in {"yards", "access_restrictions"}}
    \cup {Args(q, "", AsBBox(Inverted), <<>>, <<>>, 0, "corridor") :
        q \in {"tunnels", "stations"}}

InitHandler ==
    /\ IdleSimplify
    /\ IdleFilter
    /\ IdleTrace
    /\ IdleLoader
    /\ IdleSync
    /\ dataFiles \in {0, MaxRecs}
    /\ resultCache = EmptyCache
    /\ now = 0
    /\ call = NoCall
    /\ response = NoResponse
    /\ scanned = FALSE
    /\ reduced = 0

\* await getInfrastructureHandler(args)
Handle(args) ==
    \E r \in {getInfrastructureHandler(resultCache, now, cache, args)} :
        /\ call' = [op |-> "getInfrastructureHandler", args |-> args]
        /\ response' = r.value
        /\ resultCache' = r.entries
        /\ scanned' = r.scanned
        /\ reduced' = r.reduced
        /\ UNCHANGED <<dataFiles, now, simplifyVars, filterVars, traceVars, loaderVars, syncVars>>

NextHandler == \E args \in Requests : Handle(args)

SpecHandler == InitHandler /\ [][NextHandler]_vars

\* the last call was answered by the geographic branch
ByRegion ==
    /\ call.op = "getInfrastructureHandler"
    /\ ~IsThrow(response)
    /\ "trackId" \notin DOMAIN response

\* the bounding box of a call that gives one
RegionBBox(args) ==
    IF args.bbox # <<>>
    THEN parseBBox(args.bbox)
    ELSE bboxFromPoint(args.latitude[1], args.longitude[1],
                       IF args.radiusKm = 0 THEN DefaultRadiusKm ELSE args.radiusKm)

\* the stored records of a category that match a call by region, in the
\* order of the data file: those with a vertex in the box and, for
\* tracks, of the electrification and manager asked for
Matching(category, args) ==
    LET inRegion == InBBox(cache[category], RegionBBox(args))
    IN  IF category = "tracks"
        THEN FilterTracks(inRegion, args.electrified, args.infrastructureManager)
        ELSE inRegion

\* C7: a query by region with limit N over a region with more than N
\* matching records of a category returns exactly N of them, the first N
\* matching records in the order of the data file, and reduces the
\* geometry of at most N records for a queryType of one category.
C7_FirstNReturned ==
    ByRegion =>
        \A category \in RegionCategories \cap DOMAIN response :
            LET limit == IF call.args.limit = 0 THEN DefaultLimit ELSE call.args.limit
                matching == Matching(category, call.args)
            IN  Len(matching) > limit =>
                    /\ Len(response[category]) = limit
                    /\ response[category] =
                           MapTransform(category, SliceFirst(matching, limit),
                                        call.args.geometryDetail).items
                    /\ call.args.queryType # "all" => reduced <= limit

\* C15: a call by region with a bbox of four numbers whose minLon exceeds
\* maxLon or whose minLat exceeds maxLat is rejected with a
\* ValidationError, and no collection is filtered for it.
C15_InvertedBoxRejected ==
    (/\ call.op = "getInfrastructureHandler"
     /\ call.args.trackId = ""
     /\ call.args.bbox # <<>>
     /\ ~IsThrow(parseBBox(call.args.bbox))
     /\ \/ parseBBox(call.args.bbox).minLon > parseBBox(call.args.bbox).maxLon
        \/ parseBBox(call.args.bbox).minLat > parseBBox(call.args.bbox).maxLat) =>
        /\ response = [threw |-> "ValidationError"]
        /\ ~scanned

\* a call that gives no trackId, no bbox, and not both latitude and longitude
NoLocationGiven ==
    /\ call.op = "getInfrastructureHandler"
    /\ call.args.trackId = ""
    /\ call.args.bbox = <<>>
    /\ (call.args.latitude = <<>> \/ call.args.longitude = <<>>)

\* C16: a call that gives none of trackId, bbox, or latitude with
\* longitude ends in a ValidationError, with no result list and with no
\* collection filtered, whatever its queryType.
C16_LocationRequired ==
    NoLocationGiven =>
        /\ response = [threw |-> "ValidationError"]
        /\ ~scanned
        /\ reduced = 0

\* the error for a call that gives a latitude alone
C16_Witness ==
    /\ NoLocationGiven
    /\ call.args.latitude # <<>>
    /\ IsThrow(response)

\* the number of records of a list of the response
ListLen(name) == IF name \in DOMAIN response THEN Len(response[name]) ELSE 0

\* the number of records the response holds: the owner track, when
\* there, and the records of every list
RecordsHeld ==
    (IF "track" \in DOMAIN response /\ ~IsUndefined(response.track) THEN 1 ELSE 0)
    + ListLen("tracks") + ListLen("tunnels") + ListLen("bridges") + ListLen("switches")
    + ListLen("electrification") + ListLen("stations") + ListLen("yards")
    + ListLen("accessRestrictions")

\* C17: the count of every response that is not an error is the number of
\* records the response holds, by track and by region, for every
\* queryType, after the limit and after the track filters.
C17_CountMatches ==
    (call.op = "getInfrastructureHandler" /\ ~IsThrow(response)) =>
        response.count = RecordsHeld

\* a response by track of all categories with the owner track and more,
\* found with yards or access restrictions near the track that the
\* response leaves out
C17_Witness ==
    /\ call.op = "getInfrastructureHandler"
    /\ ~IsThrow(response)
    /\ call.args.queryType = "all"
    /\ call.args.trackId # ""
    /\ ~IsUndefined(response.track)
    /\ response.count > 1
    /\ reduced > response.count

\* C26: a call with a trackId is answered from the by-identifier path,
\* whatever its queryType and whether or not it also names a region: the
\* response carries the trackId, and is never the validation error for a
\* missing location.
C26_TrackIdAnswersByIdentifier ==
    (call.op = "getInfrastructureHandler" /\ call.args.trackId # "") =>
        /\ response # [threw |-> "ValidationError"]
        /\ ~IsThrow(response) =>
               /\ "trackId" \in DOMAIN response
               /\ response.trackId = call.args.trackId

\* the designation of the track whose id is trackId and differs from
\* its designation, if there is one
DesignationsOf(trackId) ==
    {cache.tracks[i].designation : i \in
        {j \in 1..Len(cache.tracks) :
            /\ cache.tracks[j].id = trackId
            /\ cache.tracks[j].designation # trackId}}

\* C27: a query of all types by the id of a track returns the same track,
\* tunnels, bridges and electrification sections as the same query by the
\* designation of that track.
C27_IdAndDesignationAgree ==
    (call.op = "getInfrastructureHandler" /\ call.args.queryType = "all") =>
        \A designation \in DesignationsOf(call.args.trackId) :
            \E other \in {getInfrastructureHandler(EmptyCache, now, cache,
                              [call.args EXCEPT !.trackId = designation]).value} :
                /\ response.track = other.track
                /\ response.tunnels = other.tunnels
                /\ response.bridges = other.bridges
                /\ response.electrification = other.electrification

----------------------------------------------------------------------------
(* Specification of the result cache over time: calls of                  *)
(* getSegmentInfrastructure and of the eight region queries, in any       *)
(* order, while the clock advances past the TTL of the entries and the    *)
(* data loader comes to return other records.                             *)

\* the clock reads 0, then CACHE_TTL, then CACHE_TTL + 1 milliseconds
MaxClock == CACHE_TTL + 1

\* the numbers of records the data files hold before and after a rewrite
DataVersions == {MaxRecs \div 2, MaxRecs}

CacheTrackIds == {"182"}

InitCache ==
    /\ IdleSimplify
    /\ IdleFilter
    /\ IdleTrace
    /\ IdleLoader
    /\ IdleSync
    /\ dataFiles \in DataVersions
    /\ resultCache = EmptyCache
    /\ now = 0
    /\ call = NoCall
    /\ response = NoResponse
    /\ scanned = FALSE
    /\ reduced = 0

\* Date.now() reads later
Tick ==
    /\ now < MaxClock
    /\ now' = IF now < CACHE_TTL THEN CACHE_TTL ELSE now + 1
    /\ UNCHANGED <<dataFiles, resultCache, call, response, scanned, reduced,
                   simplifyVars, filterVars, traceVars, loaderVars, syncVars>>

\* the data files are rewritten with more records and the data loader,
\* whose cache is not valid, returns their records from now on
Reload ==
    /\ ~isCacheValid(loadedAt, now)
    /\ dataFiles' \in {n \in DataVersions : n > dataFiles}
    /\ UNCHANGED <<resultCache, now, call, response, scanned, reduced,
                   simplifyVars, filterVars, traceVars, loaderVars, syncVars>>

\* cache.loadedAt after a call with result r: a call that filters the
\* collections loads them first, from the files when the cache of the data
\* loader is not valid
LoadedBy(r) ==
    IF r.scanned /\ ~isCacheValid(loadedAt, now) THEN <<now>> ELSE loadedAt

\* The record of a call with result r for the query key at a detail
\* level: whether it repeats the query of lastScan within CACHE_TTL, and
\* the responses given to that query since the collections were filtered
\* for it.
Trace(key, detail, r) ==
    /\ repeat' = (lastScan.key = key /\ now - lastScan.at <= CACHE_TTL)
    /\ held' = IF key \in DOMAIN resultCache
               THEN <<now - resultCache[key].timestamp>> ELSE <<>>
    /\ filesAt' = dataFiles
    /\ work' = IF "work" \in DOMAIN r THEN r.work ELSE NoWork
    /\ builtFrom' = [k \in DOMAIN r.entries |->
                        IF k = key /\ r.scanned
                        THEN [call |-> call', files |-> dataFiles]
                        ELSE builtFrom[k]]
    /\ lastScan' = IF r.scanned
                   THEN [key |-> key, at |-> now, files |-> dataFiles]
                   ELSE lastScan
    /\ answered' =
           IF r.scanned
           THEN [d \in {detail} |-> {r.value}]
           ELSE IF lastScan.key = key
                THEN [d \in DOMAIN answered \cup {detail} |->
                        (IF d \in DOMAIN answered THEN answered[d] ELSE {})
                        \cup (IF d = detail THEN {r.value} ELSE {})]
                ELSE answered

\* await lastkajenClient.getSegmentInfrastructure(trackId, geometryDetail)
AskSegment(trackId, geometryDetail) ==
    \E r \in {getSegmentInfrastructure(resultCache, now, cache, trackId, geometryDetail)} :
        /\ call' = [op |-> "getSegmentInfrastructure", trackId |-> trackId,
                     geometryDetail |-> geometryDetail]
        /\ response' = r.value
        /\ resultCache' = r.entries
        /\ scanned' = r.scanned
        /\ reduced' = r.reduced
        /\ Trace(SegmentKey(trackId), geometryDetail, r)
        /\ loadedAt' = LoadedBy(r)
        /\ UNCHANGED <<dataFiles, now, dataCache, tasks, readLog, simplifyVars,
                       filterVars, syncVars>>

\* await lastkajenClient.get<Category>ByBBox(bbox, limit, geometryDetail)
AskByBBox(category, bbox, limit, geometryDetail) ==
    \E r \in {getByBBox(category, resultCache, now, cache, bbox, limit, geometryDetail)} :
        /\ call' = [op |-> "getByBBox", category |-> category, bbox |-> bbox,
                     limit |-> limit, geometryDetail |-> geometryDetail]
        /\ response' = r.value
        /\ resultCache' = r.entries
        /\ scanned' = r.scanned
        /\ reduced' = r.reduced
        /\ Trace(BBoxKey(category, bbox), geometryDetail, r)
        /\ loadedAt' = LoadedBy(r)
        /\ UNCHANGED <<dataFiles, now, dataCache, tasks, readLog, simplifyVars,
                       filterVars, syncVars>>

NextCache ==
    \/ Tick
    \/ Reload
    \/ \E trackId \in CacheTrackIds, geometryDetail \in GeometryDetails :
           AskSegment(trackId, geometryDetail)
    \/ \E category \in Categories :
           AskByBBox(category, WholeArea, 1, "corridor")

SpecCache == InitCache /\ [][NextCache]_vars

\* the key of the last call: the kind of query and its parameters
QueryKey ==
    IF call.op = "getSegmentInfrastructure"
    THEN SegmentKey(call.trackId)
    ELSE BBoxKey(call.category, call.bbox)

\* C11: a query by identifier that repeats, within 24 hours of it, the
\* query that last filtered the collections for that identifier filters
\* nothing and calls no loader, and its response is the response every
\* such query has had at the same detail level since.
C11_SecondFromCache ==
    (call.op = "getSegmentInfrastructure" /\ repeat) =>
        /\ ~scanned
        /\ answered[call.geometryDetail] = {response}

\* the identifier queried again at the detail level of the first query,
\* exactly CACHE_TTL after it, when the data loader has come to return
\* other records for it
C11_Witness ==
    /\ call.op = "getSegmentInfrastructure"
    /\ repeat
    /\ ~scanned
    /\ DOMAIN answered = {call.geometryDetail}
    /\ now - lastScan.at = CACHE_TTL
    /\ RawSegment(cache, call.trackId) # resultCache[QueryKey].data

\* the last call repeated a region query within 24 hours of the call
\* that last filtered the collection for it
RepeatedByBBox == call.op = "getByBBox" /\ repeat

\* C12: region queries of every category are cached: a region query that
\* repeats, within 24 hours of it, the query that last filtered the
\* collection for the same box filters nothing.
C12_EveryKindCached == RepeatedByBBox => ~scanned

\* C12, as the code has it: raw results are cached, under the kind of
\* query and its parameters and for 24 hours, for queries by identifier
\* and for region queries of tracks only.  A repeated region query of
\* tracks filters nothing and returns the first records of the cached
\* list, reduced; a repeated region query of any of the other seven
\* categories filters the collection again.  No call is answered from an
\* entry older than CACHE_TTL.
C12_OnlyTracksCached ==
    /\ \A key \in DOMAIN resultCache :
           \/ key[1] = "segment" /\ key[2] \in CacheTrackIds
           \/ key = BBoxKey("tracks", WholeArea)
    /\ RepeatedByBBox => (scanned <=> call.category # "tracks")
    /\ (RepeatedByBBox /\ call.category = "tracks") =>
           response = MapTransform("tracks",
                                   SliceFirst(resultCache[QueryKey].data, call.limit),
                                   call.geometryDetail)
    /\ (call.op # "none" /\ ~scanned) =>
           /\ QueryKey \in DOMAIN resultCache
           /\ lastScan.key = QueryKey =>
                  resultCache[QueryKey].timestamp = lastScan.at

\* tracks of a region asked again exactly CACHE_TTL after the call that
\* filtered them, answered with the first records of a cached list that
\* is longer than the limit and is no longer what the loader returns
C12_Witness ==
    /\ RepeatedByBBox
    /\ call.category = "tracks"
    /\ ~scanned
    /\ now - lastScan.at = CACHE_TTL
    /\ Len(resultCache[QueryKey].data) > call.limit
    /\ resultCache[QueryKey].data # InBBox(cache.tracks, call.bbox)

\* the call c is of a kind whose raw result is cached
Cacheable(c) ==
    \/ c.op = "getSegmentInfrastructure"
    \/ c.op = "getByBBox" /\ c.category = "tracks"

\* the cache key of the call c
KeyOf(c) ==
    IF c.op = "getSegmentInfrastructure"
    THEN SegmentKey(c.trackId)
    ELSE BBoxKey(c.category, c.bbox)

\* the raw result of the query of the call c over the loaded records
FreshRaw(c, loaded) ==
    IF c.op = "getSegmentInfrastructure"
    THEN RawSegment(loaded, c.trackId)
    ELSE InBBox(loaded.tracks, c.bbox)

\* what the call c returns from the raw result data
ServedFrom(c, data) ==
    IF c.op = "getSegmentInfrastructure"
    THEN TransformSegment(data, c.geometryDetail)
    ELSE MapTransform("tracks", SliceFirst(data, c.limit), c.geometryDetail)

\* C21: a call of a cached kind whose key had an entry no older than
\* CACHE_TTL is answered from that entry without filtering; one whose key
\* had no entry or an entry older than CACHE_TTL filters the loaded records
\* afresh and stores the raw result with the time of the call as its
\* timestamp; either way the response is made from the entry then held,
\* never from an expired one.
C21_ServedUntilExpiry ==
    Cacheable(call) =>
        /\ scanned <=> (held = <<>> \/ held[1] > CACHE_TTL)
        /\ QueryKey \in DOMAIN resultCache
        /\ response = ServedFrom(call, resultCache[QueryKey].data)
        /\ scanned =>
               /\ lastScan.key = QueryKey
               /\ resultCache[QueryKey].timestamp = lastScan.at
               /\ resultCache[QueryKey].data = FreshRaw(call, Dataset(lastScan.files))

C22_NeverFromReplacedSnapshot ==
    Cacheable(call) =>
        response = ServedFrom(call, FreshRaw(call, Dataset(filesAt)))

\* the last call built the raw result of a track that has a geometry
BuiltForTrack ==
    /\ call.op = "getSegmentInfrastructure"
    /\ scanned
    /\ HasGeometry(FindTrack(Dataset(filesAt).tracks, call.trackId))

C21_Witness ==
    /\ call.op = "getSegmentInfrastructure"
    /\ held = <<CACHE_TTL + 1>>
    /\ scanned
    /\ resultCache[QueryKey].timestamp = now
    /\ ~IsUndefined(response.track)
    /\ dataFiles = MaxRecs

----------------------------------------------------------------------------
(* Specification of the data sync: runs of the sync script over the data  *)
(* directory and calls of the tool, which reads the directory through the *)
(* data loader, while the clock advances.                                 *)

\* the clock reads 0, then half of DATA_CACHE_TTL, then DATA_CACHE_TTL
SyncTick == DATA_CACHE_TTL \div 2
MaxSyncClock == DATA_CACHE_TTL

\* the most stations the Trafikinfo API returns
MaxStations == MaxRecs \div 2

Digits2(n) == IF n < 10 THEN "0" \o ToString(n) ELSE ToString(n)
Digits3(n) == IF n < 100 THEN "0" \o Digits2(n) ELSE ToString(n)

\* new Date(ms).toISOString(), for a time on 1 January 1970
toISOString(ms) ==
    "1970-01-01T" \o Digits2((ms \div 3600000) % 24) \o ":"
        \o Digits2((ms \div 60000) % 60) \o ":"
        \o Digits2((ms \div 1000) % 60) \o "." \o Digits3(ms % 1000) \o "Z"

\* what ensureCacheLoaded() assigns to the cache from the data files: the
\* files of n records of each category, stations.json and sync-status.json
ReadDataDir(n, dir) ==
    [files |-> n, stations |-> dir.stations, syncStatus |-> dir.syncStatus]

\* what the load functions return from the cache of the data loader
LoadedFrom(dc) ==
    [Dataset(dc.files) EXCEPT
        !.stations = [i \in 1..dc.stations |-> PointRecordAt("STA", i, 11000)],
        !.syncStatus = dc.syncStatus]

\* one more read of every data file at the time clock
Logged(log, clock, n) ==
    [t \in DOMAIN log \cup {clock} |->
        (IF t \in DOMAIN log THEN log[t] ELSE 0) + (IF t = clock THEN n ELSE 0)]

\* stationsSynced: the key is set, the fetch did not throw (<<>>) and
\* returned at least one station
StationsSynced(trafikverketKey, fetched) ==
    trafikverketKey /\ fetched # <<>> /\ fetched[1] > 0

\* The data directory after syncFromLastkajen(): stations.json is written
\* when stations were fetched, sync-status.json always.
syncFromLastkajen(dir, n, clock, trafikverketKey, fetched) ==
    LET stationsSynced == StationsSynced(trafikverketKey, fetched)
        stationsCount == IF stationsSynced THEN fetched[1] ELSE 0
        status ==
            [lastSync |-> toISOString(clock),
             source |-> IF stationsSynced THEN "trafikinfo" ELSE "manual",
             success |-> TRUE,
             counts |-> [tracks |-> n, tunnels |-> n, bridges |-> n,
                         switches |-> n, electrification |-> n,
                         stations |-> IF stationsSynced THEN stationsCount
                                      ELSE dir.stations]]
    IN  [stations |-> IF stationsSynced THEN stationsCount ELSE dir.stations,
         syncStatus |-> <<status>>]

\* the data directory as checked in: no sync-status.json yet
InitSync ==
    /\ IdleSimplify
    /\ IdleFilter
    /\ IdleTrace
    /\ dataFiles = MaxRecs
    /\ dataDir = [stations |-> MaxRecs, syncStatus |-> <<>>]
    /\ refreshed = {}
    /\ IdleToken
    /\ loadedAt = <<>>
    /\ dataCache = <<>>
    /\ tasks = <<>>
    /\ readLog = <<>>
    /\ resultCache = EmptyCache
    /\ now = 0
    /\ call = NoCall
    /\ response = NoResponse
    /\ scanned = FALSE
    /\ reduced = 0

\* Date.now() reads half of DATA_CACHE_TTL later
SyncClock ==
    /\ now < MaxSyncClock
    /\ now' = now + SyncTick
    /\ UNCHANGED <<dataFiles, resultCache, call, response, scanned, reduced,
                   simplifyVars, filterVars, traceVars, loaderVars, syncVars>>

\* npx tsx src/scripts/sync-lastkajen.ts, with TRAFIKVERKET_API_KEY set or
\* not, the fetch throwing (<<>>) or returning a number of stations
Sync(trafikverketKey, fetched) ==
    /\ dataDir' = syncFromLastkajen(dataDir, dataFiles, now, trafikverketKey, fetched)
    /\ refreshed' = IF StationsSynced(trafikverketKey, fetched)
                    THEN refreshed \cup {now} ELSE refreshed
    /\ UNCHANGED <<dataFiles, resultCache, now, call, response, scanned, reduced,
                   simplifyVars, filterVars, traceVars, loaderVars, tokenVars>>

\* await getInfrastructureHandler(args), whose first load reads the data
\* files when the cache of the data loader is not valid
Serve(args) ==
    \E valid \in {isCacheValid(loadedAt, now)} :
    \E dc \in {IF valid THEN dataCache ELSE ReadDataDir(dataFiles, dataDir)} :
    \E r \in {getInfrastructureHandler(resultCache, now, LoadedFrom(dc), args)} :
        /\ dataCache' = dc
        /\ loadedAt' = IF valid THEN loadedAt ELSE <<now>>
        /\ readLog' = IF valid THEN readLog ELSE Logged(readLog, now, 1)
        /\ call' = [op |-> "getInfrastructureHandler", args |-> args,
                     read |-> ~valid]
        /\ response' = r.value
        /\ resultCache' = r.entries
        /\ scanned' = r.scanned
        /\ reduced' = r.reduced
        /\ UNCHANGED <<dataFiles, now, tasks, simplifyVars, filterVars,
                       traceVars, syncVars>>

\* bbox: "1.2.3,0,0,0", whose first part is not a number
NotANumberBBox ==
    [bbox |-> <<<<>>, <<0>>, <<0>>, <<0>>>>, latitude |-> <<>>,
     longitude |-> <<>>, radiusKm |-> 0]

\* a query of the stations of a region, a query by track, a query with no
\* location and a query with a bbox that is not four numbers
SyncRequests ==
    {Args("stations", "", AsBBox(WholeArea), <<>>, <<>>, 0, "corridor"),
     Args("tracks", "TRK-182", NoLocation, <<>>, <<>>, 0, "corridor"),
     Args("tunnels", "", NoLocation, <<>>, <<>>, 0, "corridor"),
     Args("tunnels", "", NotANumberBBox, <<>>, <<>>, 0, "corridor")}

NextSync ==
    \/ SyncClock
    \/ \E trafikverketKey \in BOOLEAN,
          fetched \in {<<>>} \cup {<<n>> : n \in {0, MaxStations}} :
           Sync(trafikverketKey, fetched)
    \/ \E args \in SyncRequests : Serve(args)

SpecSync == InitSync /\ [][NextSync]_vars

\* C18: the lastSync of a response is null or the time of a sync run that
\* fetched and wrote data, and a sync-status.json that says success was
\* written by such a run: a run whose fetch failed or was skipped neither
\* advances lastSync nor is recorded as a success.
C18_LastSyncIsLastRefresh ==
    /\ (call.op = "getInfrastructureHandler" /\ ~IsThrow(response)) =>
           \/ response.lastSync = <<>>
           \/ \E t \in refreshed : response.lastSync = <<toISOString(t)>>
    /\ (dataDir.syncStatus # <<>> /\ dataDir.syncStatus[1].success) =>
           \E t \in refreshed : dataDir.syncStatus[1].lastSync = toISOString(t)

\* C23: a call of the tool that is rejected with a validation error read
\* no data file: it found the cache of the data loader valid or called no
\* load function.
C23_RejectedBeforeAccess ==
    (call.op = "getInfrastructureHandler" /\ response = [threw |-> "ValidationError"])
        => ~call.read

----------------------------------------------------------------------------
(* Specification of concurrent calls: two callers of                      *)
(* getSegmentInfrastructure on one event loop. A call runs without        *)
(* interruption up to its await and again from the resolution of the      *)
(* promise it awaits to its return; the file reads of the data loader     *)
(* complete one at a time, in any order, while the clock advances. The    *)
(* data files do not change.                                              *)

Callers == {1, 2}

\* the load functions getSegmentInfrastructure awaits in one Promise.all
Loaders == 8

AsyncTrackIds == {"182", "421"}
AsyncDetails == {"metadata", "precise"}

IdleTask ==
    [pc |-> "idle", trackId |-> "", geometryDetail |-> "", pending |-> 0,
     missed |-> FALSE, response |-> NoResponse]

\* The continuation of getSegmentInfrastructure after its Promise.all,
\* storing the transformed result instead of the raw one
AfterLoadsCachesTransformed(entries, clock, loaded, trackId, geometryDetail) ==
    Const(RawSegment(loaded, trackId), LAMBDA rawResult :
        Const(TransformSegment(rawResult, geometryDetail), LAMBDA value :
            [value |-> value,
             entries |-> setCache(entries, clock, SegmentKey(trackId), value),
             reduced |-> SegmentSize(rawResult)]))

\* The continuation of getSegmentInfrastructure after its Promise.all
\* (lines 278-326): the raw result is built from the loaded collections,
\* stored in the cache and returned transformed
AfterLoads(entries, clock, loaded, trackId, geometryDetail) ==
    Const(RawSegment(loaded, trackId), LAMBDA rawResult :
        [value |-> TransformSegment(rawResult, geometryDetail),
         entries |-> setCache(entries, clock, SegmentKey(trackId), rawResult),
         reduced |-> SegmentSize(rawResult)])

InitAsync ==
    /\ IdleSimplify
    /\ IdleFilter
    /\ IdleTrace
    /\ dataFiles = MaxRecs
    /\ dataDir = [stations |-> MaxRecs, syncStatus |-> <<>>]
    /\ refreshed = {}
    /\ IdleToken
    /\ loadedAt = <<>>
    /\ dataCache = <<>>
    /\ tasks = [c \in Callers |-> IdleTask]
    /\ readLog = <<>>
    /\ resultCache = EmptyCache
    /\ now = 0
    /\ call = NoCall
    /\ response = NoResponse
    /\ scanned = FALSE
    /\ reduced = 0

\* Date.now() reads half of DATA_CACHE_TTL later
AsyncClock ==
    /\ now < MaxSyncClock
    /\ now' = now + SyncTick
    /\ UNCHANGED <<dataFiles, resultCache, call, response, scanned, reduced,
                   simplifyVars, filterVars, traceVars, loaderVars, syncVars>>

\* the call of caller c returns value
Returned19(c, trackId, geometryDetail, missed, r) ==
    /\ tasks' = [tasks EXCEPT ![c] =
                    [pc |-> "done", trackId |-> trackId,
                     geometryDetail |-> geometryDetail, pending |-> 0,
                     missed |-> missed, response |-> r.value]]
    /\ call' = [op |-> "getSegmentInfrastructure", trackId |-> trackId,
                 geometryDetail |-> geometryDetail]
    /\ response' = r.value
    /\ resultCache' = r.entries
    /\ scanned' = missed
    /\ reduced' = r.reduced

\* Caller c calls getSegmentInfrastructure(trackId, geometryDetail). On a
\* hit it returns. On a miss every one of the load functions calls
\* ensureCacheLoaded(): with a valid cache they all resolve and the call
\* goes on to its return; otherwise every one starts its own reads of all
\* the data files and the call awaits them.
StartSegment(c, trackId, geometryDetail) ==
    /\ tasks[c].pc = "idle"
    /\ \E cached \in {getCached(resultCache, now, SegmentKey(trackId))} :
           IF cached.found
           THEN /\ Returned19(c, trackId, geometryDetail, FALSE,
                        [value |-> TransformSegment(cached.data, geometryDetail),
                         entries |-> cached.entries,
                         reduced |-> SegmentSize(cached.data)])
                /\ UNCHANGED <<loadedAt, dataCache, readLog>>
           ELSE IF isCacheValid(loadedAt, now)
           THEN /\ Returned19(c, trackId, geometryDetail, TRUE,
                        AfterLoads(cached.entries, now, LoadedFrom(dataCache),
                                   trackId, geometryDetail))
                /\ UNCHANGED <<loadedAt, dataCache, readLog>>
           ELSE /\ tasks' = [tasks EXCEPT ![c] =
                               [pc |-> "loading", trackId |-> trackId,
                                geometryDetail |-> geometryDetail,
                                pending |-> Loaders, missed |-> TRUE,
                                response |-> NoResponse]]
                /\ readLog' = Logged(readLog, now, Loaders)
                /\ resultCache' = cached.entries
                /\ UNCHANGED <<loadedAt, dataCache, call, response, scanned, reduced>>
    /\ UNCHANGED <<dataFiles, now, simplifyVars, filterVars, traceVars, syncVars>>

\* The reads started by one load function of caller c complete:
\* ensureCacheLoaded() assigns the cache and loadedAt, and the load
\* function resolves. When it is the last one the call awaits, the call
\* goes on to its return.
ReadsComplete(c) ==
    /\ tasks[c].pc = "loading"
    /\ dataCache' = ReadDataDir(dataFiles, dataDir)
    /\ loadedAt' = <<now>>
    /\ IF tasks[c].pending > 1
       THEN /\ tasks' = [tasks EXCEPT ![c].pending = @ - 1]
            /\ UNCHANGED <<resultCache, call, response, scanned, reduced>>
       ELSE \E r \in {AfterLoads(resultCache, now, LoadedFrom(dataCache'),
                                 tasks[c].trackId, tasks[c].geometryDetail)} :
                Returned19(c, tasks[c].trackId, tasks[c].geometryDetail, TRUE, r)
    /\ UNCHANGED <<dataFiles, now, readLog, simplifyVars, filterVars,
                   traceVars, syncVars>>

NextAsync ==
    \/ AsyncClock
    \/ \E c \in Callers, trackId \in AsyncTrackIds, geometryDetail \in AsyncDetails :
           StartSegment(c, trackId, geometryDetail)
    \/ \E c \in Callers : ReadsComplete(c)

SpecAsync == InitAsync /\ [][NextAsync]_vars

\* two calls for one id have both returned after both missing the cache
BothMissed(a, b) ==
    /\ a # b
    /\ tasks[a].pc = "done" /\ tasks[b].pc = "done"
    /\ tasks[a].missed /\ tasks[b].missed
    /\ tasks[a].trackId = tasks[b].trackId

\* C19: when two concurrent calls for one id both missed the cache, neither
\* threw, each returned the cached raw result reduced to its detail level
\* (so equal results at equal detail), and the cache holds one entry, under
\* the key of that id, whose data is the whole raw result of the id.
C19_ConcurrentMissesAgree ==
    \A a, b \in Callers :
        BothMissed(a, b) =>
            /\ ~IsThrow(tasks[a].response) /\ ~IsThrow(tasks[b].response)
            /\ DOMAIN resultCache = {SegmentKey(tasks[a].trackId)}
            /\ resultCache[SegmentKey(tasks[a].trackId)].data
                   = RawSegment(LoadedFrom(dataCache), tasks[a].trackId)
            /\ \A c \in {a, b} :
                   tasks[c].response
                       = TransformSegment(resultCache[SegmentKey(tasks[a].trackId)].data,
                                          tasks[c].geometryDetail)
            /\ tasks[a].geometryDetail = tasks[b].geometryDetail
                   => tasks[a].response = tasks[b].response

\* both calls missed, returned a track at different detail levels, and the
\* second stored its entry later than the first call began
C19_Witness ==
    /\ BothMissed(1, 2)
    /\ tasks[1].geometryDetail # tasks[2].geometryDetail
    /\ ~IsUndefined(tasks[1].response.track)
    /\ tasks[1].response # tasks[2].response
    /\ resultCache[SegmentKey(tasks[1].trackId)].timestamp > 0

\* C20: any two reads of one data file are at least DATA_CACHE_TTL apart:
\* no file is read twice at one time, nor again within 5 minutes.
C20_ReadOncePerWindow ==
    \A t \in DOMAIN readLog :
        /\ readLog[t] <= 1
        /\ \A u \in DOMAIN readLog : u > t => u - t >= DATA_CACHE_TTL

----------------------------------------------------------------------------
(* Specification of the Lastkajen token: two callers of getValidToken,    *)
(* whose login requests succeed or fail, while the clock advances by      *)
(* seconds.                                                               *)

\* (response.expires_in - 300) * 1000
ExpiryBufferSeconds == 300
MillisPerSecond == 1000

MaxLifetime == 2
MaxLogins == 3

TokenCallers == {1, 2}

\* expires_in of a login response: below, at and above the buffer
ExpiresIn ==
    {ExpiryBufferSeconds - 1, ExpiryBufferSeconds, ExpiryBufferSeconds + MaxLifetime}

MaxTokenClock == (MaxLifetime + 1) * MillisPerSecond

\* process.env, "" standing for a variable that is unset or empty (both
\* are falsy)
Environments ==
    [username : {"", "user"}, password : {"", "secret"}, apiToken : {"", "env-token"}]

\* cachedToken && Date.now() <= cachedToken.expiresAt
isCachedTokenValidAtExpiry(cached, clock) ==
    cached # <<>> /\ clock <= cached[1].expiresAt

\* cachedToken && Date.now() < cachedToken.expiresAt
isCachedTokenValid(cached, clock) ==
    cached # <<>> /\ clock < cached[1].expiresAt

\* { token: response.access_token,
\*   expiresAt: Date.now() + (response.expires_in - 300) * 1000 }
tokenFromLogin(loginResponse, clock) ==
    [token |-> loginResponse.access_token,
     expiresAt |-> clock + (loginResponse.expires_in - ExpiryBufferSeconds) * MillisPerSecond]

\* lines 70-78: the environment's token, or the ValidationError
fallbackToken(environment) ==
    IF environment.apiToken # ""
    THEN [token |-> environment.apiToken]
    ELSE [threw |-> "ValidationError"]

NotGetting == [pc |-> "idle", result |-> NoResponse]

InitToken ==
    /\ IdleSimplify
    /\ IdleFilter
    /\ IdleTrace
    /\ IdleLoader
    /\ dataDir = <<>>
    /\ refreshed = {}
    /\ dataFiles = 0
    /\ resultCache = EmptyCache
    /\ now = 0
    /\ call = NoCall
    /\ response = NoResponse
    /\ scanned = FALSE
    /\ reduced = 0
    /\ cachedToken = <<>>
    /\ env \in Environments
    /\ getting = [c \in TokenCallers |-> NotGetting]
    /\ logins = 0
    /\ tokenStep = NoTokenStep

\* Date.now() reads a second later
TokenClock ==
    /\ now < MaxTokenClock
    /\ now' = now + MillisPerSecond
    /\ UNCHANGED <<dataFiles, resultCache, call, response, scanned, reduced,
                   simplifyVars, filterVars, traceVars, loaderVars,
                   dataDir, refreshed, tokenVars>>

TokenStepOf(kind, caller) ==
    [kind |-> kind, caller |-> caller, at |-> now, held |-> cachedToken]

\* getValidToken() up to its return or to await refreshToken(...), which
\* posts the login request before it suspends
GetValidToken(caller) ==
    /\ getting[caller].pc = "idle"
    /\ IF isCachedTokenValid(cachedToken, now)
       THEN /\ getting' = [getting EXCEPT ![caller].result =
                                              [token |-> cachedToken[1].token]]
            /\ tokenStep' = TokenStepOf("cached", caller)
            /\ UNCHANGED logins
       ELSE IF env.username # "" /\ env.password # ""
            THEN /\ logins < MaxLogins
                 /\ logins' = logins + 1
                 /\ getting' = [getting EXCEPT ![caller] =
                                    [pc |-> "login", result |-> NoResponse,
                                     login |-> logins + 1]]
                 /\ tokenStep' = TokenStepOf("login", caller)
            ELSE /\ getting' = [getting EXCEPT ![caller].result = fallbackToken(env)]
                 /\ tokenStep' = TokenStepOf("no-credentials", caller)
                 /\ UNCHANGED logins
    /\ UNCHANGED <<cachedToken, env, engineVarsButSync, dataDir, refreshed,
                   simplifyVars, filterVars>>

\* refreshToken resolves with a login response: the rest of the try block
LoginSucceeds(caller, expires_in) ==
    /\ getting[caller].pc = "login"
    /\ \E loginResponse \in {[access_token |-> <<"login", getting[caller].login>>,
                               expires_in |-> expires_in]} :
           /\ cachedToken' = <<tokenFromLogin(loginResponse, now)>>
           /\ getting' = [getting EXCEPT ![caller] =
                              [pc |-> "idle", result |-> [token |-> cachedToken'[1].token]]]
           /\ tokenStep' = TokenStepOf("fresh", caller) @@ [expires_in |-> expires_in]
    /\ UNCHANGED <<env, logins, engineVarsButSync, dataDir, refreshed,
                   simplifyVars, filterVars>>

\* refreshToken rejects (the response is not ok, or fetch fails): the catch
\* block, then lines 70-78
LoginFails(caller) ==
    /\ getting[caller].pc = "login"
    /\ getting' = [getting EXCEPT ![caller] =
                       [pc |-> "idle", result |-> fallbackToken(env)]]
    /\ tokenStep' = TokenStepOf("login-failed", caller)
    /\ UNCHANGED <<cachedToken, env, logins, engineVarsButSync, dataDir, refreshed,
                   simplifyVars, filterVars>>

NextToken ==
    \/ TokenClock
    \/ \E caller \in TokenCallers : GetValidToken(caller)
    \/ \E caller \in TokenCallers, expires_in \in ExpiresIn :
           LoginSucceeds(caller, expires_in)
    \/ \E caller \in TokenCallers : LoginFails(caller)

SpecToken == InitToken /\ [][NextToken]_vars

\* what the caller of the last step of getValidToken got
Got == getting[tokenStep.caller].result

\* C30: getValidToken returns the cached token without a login only while
\* the clock is strictly before its expiresAt, which a login records as
\* the time of its response plus (expires_in - 300) seconds; a login
\* request is issued only when there is no cached token or the clock has
\* reached its expiresAt; a failed login leaves cachedToken as it was and
\* the call returns LASTKAJEN_API_TOKEN, or throws the ValidationError
\* when that is not set.
C30_TokenCache ==
    /\ tokenStep.kind = "cached" =>
           /\ tokenStep.held # <<>>
           /\ tokenStep.at < tokenStep.held[1].expiresAt
           /\ Got = [token |-> tokenStep.held[1].token]
           /\ cachedToken = tokenStep.held
    /\ tokenStep.kind = "login" =>
           \/ tokenStep.held = <<>>
           \/ tokenStep.at >= tokenStep.held[1].expiresAt
    /\ tokenStep.kind = "fresh" =>
           /\ cachedToken[1].expiresAt
                  = tokenStep.at
                    + (tokenStep.expires_in - ExpiryBufferSeconds) * MillisPerSecond
           /\ Got = [token |-> cachedToken[1].token]
    /\ tokenStep.kind = "login-failed" =>
           /\ cachedToken = tokenStep.held
           /\ IF env.apiToken # ""
              THEN Got = [token |-> env.apiToken]
              ELSE Got = [threw |-> "ValidationError"]
    /\ (tokenStep.kind # "none" /\ Got = [threw |-> "ValidationError"]) =>
           env.apiToken = ""

\* a caller whose login failed got LASTKAJEN_API_TOKEN while cachedToken
\* held the expired token of an earlier login, which another caller had
\* been given from the cache before it expired
C30_Witness ==
    /\ tokenStep.kind = "login-failed"
    /\ Got = [token |-> "env-token"]
    /\ cachedToken # <<>>
    /\ now >= cachedToken[1].expiresAt
    /\ \E other \in TokenCallers \ {tokenStep.caller} :
           getting[other].result = [token |-> cachedToken[1].token]

=============================================================================
